---- MODULE Spec2Model ----
(***************************************************************************)
(* A model of the OKLCH shade generator of @uniweb/theming                 *)
(* (shade-generator.js): parseColor, the colour-space conversions, the     *)
(* gamut search findMaxChroma, the fixed and the enhanced shade            *)
(* algorithms and the two formatters.                                      *)
(*                                                                         *)
(* Numbers.  A JavaScript number x is modelled as the integer              *)
(* round(x * Scale) (six decimal places), or as the value NaN.  Every      *)
(* arithmetic step of the source is carried out on that representation in  *)
(* the order the source carries it out.  A text is the sequence of its     *)
(* characters, each a one-character string.                                *)
(***************************************************************************)
EXTENDS Integers, Sequences, FiniteSets, TLC

(***************************************************************************)
(* Fixed-point arithmetic                                                  *)
(***************************************************************************)
Scale == 1000 * 1000

\* The value of NaN: an integer no computation of the model produces.
NaN == 0 - 2147483647

IsNaN(x) == x = NaN

\* const x = v; F(x): the value v is computed once and named.
Let1(v, F(_)) == CHOOSE r \in {F(x) : x \in {v}} : TRUE

Let2(v, w, F(_, _)) == CHOOSE r \in {F(x, y) : x \in {v}, y \in {w}} : TRUE

Let3(u, v, w, F(_, _, _)) ==
  CHOOSE r \in {F(x, y, z) : x \in {u}, y \in {v}, z \in {w}} : TRUE

Abs(x) == IF x < 0 THEN 0 - x ELSE x

Max(a, b) == IF a >= b THEN a ELSE b

Min(a, b) == IF a <= b THEN a ELSE b

\* a * b of two scaled numbers, to the nearest unit, without leaving 32 bits.
Mul(a, b) ==
  LET a1 == a \div 1000
      a0 == a % 1000
      b1 == b \div 1000
      b0 == b % 1000
  IN  a1 * b1 + ((a1 * b0 + a0 * b1 + ((a0 * b0 + 500) \div 1000) + 500) \div 1000)

\* a / b of two scaled numbers for b > 0, floored, by long division.
DivPos(a, b) ==
  Let1((a % b) * 100, LAMBDA s1 :
  Let1((s1 % b) * 100, LAMBDA s2 :
    (a \div b) * Scale + (s1 \div b) * 10000 + (s2 \div b) * 100
      + (((s2 % b) * 100) \div b)))

\* a / b of two scaled numbers, b # 0.
Div(a, b) == DivPos(IF b > 0 THEN a ELSE 0 - a, Abs(b))

\* The arithmetic of JavaScript numbers: NaN is contagious.
FAdd(a, b) == IF IsNaN(a) \/ IsNaN(b) THEN NaN ELSE a + b

FSub(a, b) == IF IsNaN(a) \/ IsNaN(b) THEN NaN ELSE a - b

FMul(a, b) == IF IsNaN(a) \/ IsNaN(b) THEN NaN ELSE Mul(a, b)

\* Comparisons with NaN are false.
FLt(a, b) == ~IsNaN(a) /\ ~IsNaN(b) /\ a < b

FLe(a, b) == ~IsNaN(a) /\ ~IsNaN(b) /\ a <= b

(***************************************************************************)
(* Math.sqrt, Math.cbrt, Math.pow, Math.cos, Math.sin, Math.atan2          *)
(***************************************************************************)
RECURSIVE SqrtIter(_, _)
SqrtIter(w, z) ==
  Let1((z + Div(w, z)) \div 2, LAMBDA n : IF n >= z THEN z ELSE SqrtIter(w, n))

\* Math.sqrt(w), w >= 0: Newton's iteration from above.
Sqrt(w) == IF w <= 0 THEN 0 ELSE SqrtIter(w, Max(w, Scale))

RECURSIVE CbrtIter(_, _)
CbrtIter(w, z) ==
  Let1((2 * z + Div(w, Mul(z, z))) \div 3, LAMBDA n :
    IF n >= z THEN z ELSE CbrtIter(w, n))

\* Math.cbrt(w): Newton's iteration from above; odd in w.
Cbrt(w) ==
  IF w = 0 THEN 0
  ELSE (IF w < 0 THEN 0 - 1 ELSE 1) * CbrtIter(Abs(w), Max(Abs(w), Scale))

RECURSIVE Root5Iter(_, _)
Root5Iter(w, z) ==
  Let1(Mul(z, z), LAMBDA z2 :
  Let1((4 * z + Div(w, Mul(z2, z2))) \div 5, LAMBDA n :
    IF n >= z THEN z ELSE Root5Iter(w, n)))

\* The fifth root of w > 0.
Root5(w) == IF w <= 0 THEN 0 ELSE Root5Iter(w, Max(w, Scale))

\* Math.pow(x, 2.4) for x > 0: x^2 * (x^2)^(1/5).
Pow24(x) == Let1(Mul(x, x), LAMBDA x2 : Mul(x2, Root5(x2)))

\* Math.pow(c, 1 / 2.4) for c > 0: c^(1/4) * c^(1/6).
PowInv24(c) == Let1(Sqrt(c), LAMBDA s : Mul(Sqrt(s), Cbrt(s)))

Pi == 3141593

\* sin x for x radians, 0 <= x <= Pi/4: the Taylor series to x^9.
SinSmall(x) ==
  Let1(Mul(x, x), LAMBDA x2 :
    Mul(x, Scale - Mul(x2 \div 6, Scale - Mul(x2 \div 20,
           Scale - Mul(x2 \div 42, Scale - x2 \div 72)))))

\* cos x for x radians, 0 <= x <= Pi/4: the Taylor series to x^10.
CosSmall(x) ==
  Let1(Mul(x, x), LAMBDA x2 :
    Scale - Mul(x2 \div 2, Scale - Mul(x2 \div 12, Scale - Mul(x2 \div 30,
           Scale - Mul(x2 \div 56, Scale - x2 \div 90)))))

\* h * (Math.PI / 180)
Rad(deg) == Mul(deg, Pi) \div 180

\* sin of d degrees, 0 <= d <= 90.
SinQ(d) ==
  IF d <= 45 * Scale THEN SinSmall(Rad(d)) ELSE CosSmall(Rad(90 * Scale - d))

\* Math.sin of an angle given in degrees (the source converts the hue to
\* radians first).
SinDeg(h) ==
  Let1(h % (360 * Scale), LAMBDA d :
    (IF d <= 180 * Scale THEN 1 ELSE 0 - 1)
      * SinQ(IF d <= 90 * Scale THEN d
             ELSE IF d <= 180 * Scale THEN 180 * Scale - d
             ELSE IF d <= 270 * Scale THEN d - 180 * Scale
             ELSE 360 * Scale - d))

\* [Math.cos, Math.sin] of an angle given in degrees.
CosSinDeg(h) == [k \in 1..2 |-> SinDeg(IF k = 1 THEN h + 90 * Scale ELSE h)]

\* atan(t) = 2 atan(t / (1 + sqrt(1 + t^2))), applied n times to the argument.
RECURSIVE HalveAtanArg(_, _)
HalveAtanArg(t, n) ==
  IF n = 0 THEN t
  ELSE HalveAtanArg(Div(t, Scale + Sqrt(Scale + Mul(t, t))), n - 1)

\* atan(t) in radians for 0 <= t <= 1: two argument halvings, then the
\* series to t^9.
AtanUnit(t) ==
  Let1(HalveAtanArg(t, 2), LAMBDA u :
  Let1(Mul(u, u), LAMBDA u2 :
    4 * Mul(u, Scale - Mul(u2, 333333 - Mul(u2, 200000 - Mul(u2,
              142857 - Mul(u2, 111111)))))))

\* rad * (180 / Math.PI)
Deg(rad) == Div(rad * 180, Pi)

\* Math.atan2(y, x) * (180 / Math.PI), in (-180, 180].
Atan2Deg(y, x) ==
  Let2(Abs(y), Abs(x), LAMBDA ay, ax :
  Let1(IF ax = 0 /\ ay = 0 THEN 0
       ELSE Deg(AtanUnit(Div(Min(ax, ay), Max(ax, ay)))), LAMBDA small :
  Let1(IF ay <= ax THEN small ELSE 90 * Scale - small, LAMBDA first :
  Let1(IF x >= 0 THEN first ELSE 180 * Scale - first, LAMBDA upper :
    IF y >= 0 THEN upper ELSE 0 - upper))))

\* Math.round of a scaled number, as an integer.
Round(x) == (x + Scale \div 2) \div Scale

(***************************************************************************)
(* SpaceConverter                                                          *)
(***************************************************************************)
\* srgbToLinear(c)
srgbToLinear(c) ==
  IF c <= 40450 THEN Div(c, 12920000)
  ELSE Pow24(Div(c + 55000, 1055000))

\* linearToSrgb(c)
linearToSrgb(c) ==
  IF c <= 3131 THEN (1292 * c) \div 100
  ELSE Mul(1055000, PowInv24(c)) - 55000

\* rgbValuesToOklch(r, g, b): r, g, b are scaled numbers (0..255 for a colour).
rgbValuesToOklch(r0, g0, b0) ==
  IF IsNaN(r0) \/ IsNaN(g0) \/ IsNaN(b0) THEN [l |-> NaN, c |-> NaN, h |-> NaN]
  ELSE
  Let1([k \in 1..3 |-> srgbToLinear((IF k = 1 THEN r0 ELSE IF k = 2 THEN g0 ELSE b0)
                                     \div 255)], LAMBDA lin :
  Let1([k \in 1..3 |->
          Cbrt(IF k = 1
               THEN Mul(412221, lin[1]) + Mul(536333, lin[2]) + Mul(51446, lin[3])
               ELSE IF k = 2
               THEN Mul(211903, lin[1]) + Mul(680700, lin[2]) + Mul(107397, lin[3])
               ELSE Mul(88302, lin[1]) + Mul(281719, lin[2]) + Mul(629979, lin[3]))],
       LAMBDA lms :
  Let3(Mul(210454, lms[1]) + Mul(793618, lms[2]) - Mul(4072, lms[3]),
       Mul(1977998, lms[1]) - Mul(2428592, lms[2]) + Mul(450594, lms[3]),
       Mul(25904, lms[1]) + Mul(782772, lms[2]) - Mul(808676, lms[3]),
       LAMBDA L, a, bLab :
  Let1(Atan2Deg(bLab, a), LAMBDA H :
    [l |-> L, c |-> Sqrt(Mul(a, a) + Mul(bLab, bLab)),
     h |-> IF H < 0 THEN H + 360 * Scale ELSE H]))))

\* The body of oklchToRgb up to and including linearToSrgb: the three sRGB
\* channels (1.0 is channel value 255) before Math.max, Math.min and
\* Math.round are applied to them.
oklchToSrgbUnclamped(l, c, h) ==
  Let1(CosSinDeg(h), LAMBDA cs :
  Let2(Mul(c, cs[1]), Mul(c, cs[2]), LAMBDA a, bLab :
  Let3(l + Mul(396338, a) + Mul(215804, bLab),
       l - Mul(105561, a) - Mul(63854, bLab),
       l - Mul(89484, a) - Mul(1291486, bLab), LAMBDA l_, m_, s_ :
  Let3(Mul(Mul(l_, l_), l_), Mul(Mul(m_, m_), m_), Mul(Mul(s_, s_), s_),
       LAMBDA lCubed, mCubed, sCubed :
    [k \in {"r", "g", "b"} |->
       linearToSrgb(
         IF k = "r"
         THEN Mul(4076742, lCubed) - Mul(3307712, mCubed) + Mul(230970, sCubed)
         ELSE IF k = "g"
         THEN Mul(2609757, mCubed) - Mul(1268438, lCubed) - Mul(341319, sCubed)
         ELSE Mul(1707615, sCubed) - Mul(4196, lCubed) - Mul(703419, mCubed))]))))

\* Math.round(Math.max(0, Math.min(1, x)) * 255)
ClampChannel(x) == Round(Max(0, Min(Scale, x)) * 255)

\* oklchToRgb(l, c, h): integer channels, or NaN channels for a NaN argument.
oklchToRgb(l, c, h) ==
  IF IsNaN(l) \/ IsNaN(c) \/ IsNaN(h) THEN [k \in {"r", "g", "b"} |-> NaN]
  ELSE Let1(oklchToSrgbUnclamped(l, c, h), LAMBDA u :
         [k \in {"r", "g", "b"} |-> ClampChannel(u[k])])

(***************************************************************************)
(* Texts                                                                   *)
(***************************************************************************)
DigitChars == <<"0", "1", "2", "3", "4", "5", "6", "7", "8", "9">>

HexChars == <<"0", "1", "2", "3", "4", "5", "6", "7", "8", "9",
              "a", "b", "c", "d", "e", "f">>

UpperChars == <<"A", "B", "C", "D", "E", "F", "G", "H", "I", "J", "K", "L", "M",
                "N", "O", "P", "Q", "R", "S", "T", "U", "V", "W", "X", "Y", "Z">>

LowerChars == <<"a", "b", "c", "d", "e", "f", "g", "h", "i", "j", "k", "l", "m",
                "n", "o", "p", "q", "r", "s", "t", "u", "v", "w", "x", "y", "z">>

Range(f) == {f[i] : i \in DOMAIN f}

\* \s of a regular expression, and what String.prototype.trim removes.
WhiteSpace == {" ", "\t", "\n"}

\* [0-9]
DigitClass == Range(DigitChars)

\* [0-9a-f] under the i flag.
HexClass == Range(HexChars) \cup {"A", "B", "C", "D", "E", "F"}

\* [0-9.]
NumClass == DigitClass \cup {"."}

\* [\s,]
SepClass == WhiteSpace \cup {","}

ToLowerChar(ch) ==
  IF ch \in Range(UpperChars)
  THEN LowerChars[CHOOSE i \in DOMAIN UpperChars : UpperChars[i] = ch]
  ELSE ch

\* String.prototype.toLowerCase
ToLowerCase(s) == [i \in DOMAIN s |-> ToLowerChar(s[i])]

\* String.prototype.trim
Trim(s) ==
  LET keep == {i \in DOMAIN s : s[i] \notin WhiteSpace}
  IN  IF keep = {} THEN <<>>
      ELSE LET lo == CHOOSE i \in keep : \A j \in keep : i <= j
               hi == CHOOSE i \in keep : \A j \in keep : j <= i
           IN  SubSeq(s, lo, hi)

\* String.prototype.indexOf of one character, counted from 1 (0: absent).
IndexOf(s, ch) ==
  IF \A i \in DOMAIN s : s[i] # ch THEN 0
  ELSE CHOOSE i \in DOMAIN s : s[i] = ch /\ \A j \in 1..(i - 1) : s[j] # ch

\* String.prototype.startsWith
StartsWith(s, p) == Len(s) >= Len(p) /\ SubSeq(s, 1, Len(p)) = p

\* s occurs in str at position i.
OccursAt(str, s, i) == i + Len(s) - 1 <= Len(str) /\ SubSeq(str, i, i + Len(s) - 1) = s

\* The first position >= i of str whose character is not in the class
\* (Len(str) + 1 when there is none): the end of a greedy run.
RECURSIVE RunEnd(_, _, _)
RunEnd(str, i, class) ==
  IF i > Len(str) \/ str[i] \notin class THEN i ELSE RunEnd(str, i + 1, class)

\* The value of a hexadecimal digit (either case).
HexVal(ch) == (CHOOSE i \in DOMAIN HexChars : HexChars[i] = ToLowerChar(ch)) - 1

\* The value of a run of decimal digits.
RECURSIVE DecValue(_)
DecValue(ds) ==
  IF ds = <<>> THEN 0
  ELSE DecValue(SubSeq(ds, 1, Len(ds) - 1)) * 10 + HexVal(ds[Len(ds)])

\* The value of a run of hexadecimal digits.
RECURSIVE HexValue(_)
HexValue(ds) ==
  IF ds = <<>> THEN 0
  ELSE HexValue(SubSeq(ds, 1, Len(ds) - 1)) * 16 + HexVal(ds[Len(ds)])

\* The fraction 0.d1d2... of a run of decimal digits as a scaled number,
\* rounded at the seventh digit.
FracValue(ds) ==
  LET padded == ds \o <<"0", "0", "0", "0", "0", "0", "0">>
  IN  (DecValue(SubSeq(padded, 1, 7)) + 5) \div 10

\* parseFloat of a text of the class [0-9.]+: digits, at most one point,
\* digits; what follows a second point is ignored; no digit at all is NaN.
parseFloat(s) ==
  Let1(RunEnd(s, 1, DigitClass), LAMBDA iEnd :
  Let1(IF iEnd <= Len(s) /\ s[iEnd] = "."
       THEN SubSeq(s, iEnd + 1, RunEnd(s, iEnd + 1, DigitClass) - 1)
       ELSE <<>>, LAMBDA frac :
    IF iEnd = 1 /\ frac = <<>> THEN NaN
    ELSE DecValue(SubSeq(s, 1, iEnd - 1)) * Scale + FracValue(frac)))

\* parseInt(s, 16): leading white space, a sign, an optional 0x, then the
\* longest run of hexadecimal digits; NaN when that run is empty.
parseInt16(s) ==
  Let1(RunEnd(s, 1, WhiteSpace), LAMBDA a :
  Let1(IF a <= Len(s) /\ s[a] \in {"-", "+"} THEN a + 1 ELSE a, LAMBDA b :
  Let1(IF OccursAt(s, <<"0", "x">>, b) \/ OccursAt(s, <<"0", "X">>, b) THEN b + 2 ELSE b,
       LAMBDA c :
  Let1(RunEnd(s, c, HexClass), LAMBDA d :
    IF d = c THEN NaN
    ELSE IF b > a /\ s[a] = "-" THEN 0 - HexValue(SubSeq(s, c, d - 1))
    ELSE HexValue(SubSeq(s, c, d - 1))))))

\* The decimal numeral of a natural number.
RECURSIVE NatText(_)
NatText(n) ==
  IF n < 10 THEN <<DigitChars[n + 1]>>
  ELSE NatText(n \div 10) \o <<DigitChars[(n % 10) + 1]>>

\* The last k digits of n, zero-padded.
RECURSIVE PadDigits(_, _)
PadDigits(n, k) ==
  IF k = 0 THEN <<>> ELSE PadDigits(n \div 10, k - 1) \o <<DigitChars[(n % 10) + 1]>>

\* Number.prototype.toFixed(k) of a scaled number, k in 1..6.
toFixed(x, k) ==
  IF IsNaN(x) THEN <<"N", "a", "N">>
  ELSE LET unit == 10 ^ (6 - k)
           m == (Abs(x) + unit \div 2) \div unit
           body == NatText(m \div (10 ^ k)) \o <<".">> \o PadDigits(m % (10 ^ k), k)
       IN  IF x < 0 /\ m > 0 THEN <<"-">> \o body ELSE body

\* Number.prototype.toString(16) of an integer.
RECURSIVE HexText(_)
HexText(n) ==
  IF n < 16 THEN <<HexChars[n + 1]>>
  ELSE HexText(n \div 16) \o <<HexChars[(n % 16) + 1]>>

toString16(n) ==
  IF IsNaN(n) THEN <<"N", "a", "N">>
  ELSE IF n < 0 THEN <<"-">> \o HexText(0 - n) ELSE HexText(n)

\* padStart with the bug of padding nothing.
padStart2_None(s) == s

\* String.prototype.padStart(2, '0')
padStart2(s) == IF Len(s) >= 2 THEN s ELSE IF Len(s) = 1 THEN <<"0">> \o s ELSE <<"0", "0">>

(***************************************************************************)
(* Formatter                                                               *)
(***************************************************************************)
\* formatOklch(l, c, h)
formatOklch(l, c, h) ==
  <<"o", "k", "l", "c", "h", "(">> \o toFixed(IF IsNaN(l) THEN NaN ELSE l * 100, 1)
    \o <<"%", " ">> \o toFixed(c, 4) \o <<" ">> \o toFixed(h, 1) \o <<")">>

\* formatHex(r, g, b)
formatHex(r, g, b) ==
  <<"#">> \o padStart2(toString16(r)) \o padStart2(toString16(g)) \o padStart2(toString16(b))

\* formatHexFromOklch(oklch)
formatHexFromOklch(oklch) ==
  Let1(oklchToRgb(oklch.l, oklch.c, oklch.h), LAMBDA rgb : formatHex(rgb.r, rgb.g, rgb.b))

(***************************************************************************)
(* ColorParser                                                             *)
(***************************************************************************)
\* A JavaScript value handed to parseColor: t is its typeof ("string",
\* "number", "object" for null, "undefined", ...), s its characters when it is
\* a string.
Str(s) == [t |-> "string", s |-> s]

\* The result of a call that returns a colour or throws.
Ok(l, c, h) == [ok |-> TRUE, l |-> l, c |-> c, h |-> h, err |-> "none"]

Throw(e) == [ok |-> FALSE, l |-> 0, c |-> 0, h |-> 0, err |-> e]

\* x / n for a scaled number x and an integer n.
FDivInt(x, n) == IF IsNaN(x) THEN NaN ELSE x \div n

\* x * n for a scaled number x and an integer n.
FMulInt(x, n) == IF IsNaN(x) THEN NaN ELSE x * n

NoMatch == [ok |-> FALSE]

\* The leftmost match of an unanchored pattern: At(str, p) is the match that
\* starts at position p.
FirstMatch(str, At(_, _)) ==
  Let1([p \in 1..Len(str) |-> At(str, p)], LAMBDA tries :
    IF \A p \in DOMAIN tries : ~tries[p].ok THEN NoMatch
    ELSE tries[CHOOSE p \in DOMAIN tries : tries[p].ok /\ \A q \in 1..(p - 1) : ~tries[q].ok])

\* /oklch\(\s*([0-9.]+)(%?)\s+([0-9.]+)\s+([0-9.]+)(deg)?\s*\)/ at position p.
oklchPatternAt(str, p) ==
  LET n  == Len(str)
      a  == p + 6
      b  == RunEnd(str, a, WhiteSpace)
      c  == RunEnd(str, b, NumClass)
      d  == IF c <= n /\ str[c] = "%" THEN c + 1 ELSE c
      e  == RunEnd(str, d, WhiteSpace)
      f  == RunEnd(str, e, NumClass)
      g  == RunEnd(str, f, WhiteSpace)
      h  == RunEnd(str, g, NumClass)
      i  == IF OccursAt(str, <<"d", "e", "g">>, h) THEN h + 3 ELSE h
      j  == RunEnd(str, i, WhiteSpace)
  IN  IF /\ OccursAt(str, <<"o", "k", "l", "c", "h", "(">>, p)
         /\ c > b /\ e > d /\ f > e /\ g > f /\ h > g
         /\ j <= n /\ str[j] = ")"
      THEN [ok |-> TRUE, m1 |-> SubSeq(str, b, c - 1), m2 |-> d > c,
            m3 |-> SubSeq(str, e, f - 1), m4 |-> SubSeq(str, g, h - 1)]
      ELSE NoMatch

\* parseOklch(str)
parseOklch(str) ==
  Let1(FirstMatch(str, oklchPatternAt), LAMBDA match :
    IF ~match.ok THEN Throw("Invalid oklch format")
    ELSE Let1(parseFloat(match.m1), LAMBDA l :
           Ok(IF match.m2 THEN FDivInt(l, 100) ELSE l,
              parseFloat(match.m3), parseFloat(match.m4))))

\* hexToRgb with the bug of not expanding the four-digit form.
hexToRgb_NoShortAlpha(hex) ==
  Let1(IndexOf(hex, "#"), LAMBDA at :
  Let1(IF at = 0 THEN hex ELSE SubSeq(hex, 1, at - 1) \o SubSeq(hex, at + 1, Len(hex)),
       LAMBDA h0 :
  Let1(IF Len(h0) = 3 THEN <<h0[1], h0[1], h0[2], h0[2], h0[3], h0[3]>> ELSE h0,
       LAMBDA h :
  Let1(parseInt16(SubSeq(h, 1, Min(6, Len(h)))), LAMBDA p :
  Let1(IF IsNaN(p) THEN 0 ELSE p, LAMBDA num :
    [r |-> (num \div 65536) % 256, g |-> (num \div 256) % 256, b |-> num % 256])))))

\* hexToRgb(hex)
hexToRgb(hex) ==
  Let1(IndexOf(hex, "#"), LAMBDA at :
  Let1(IF at = 0 THEN hex ELSE SubSeq(hex, 1, at - 1) \o SubSeq(hex, at + 1, Len(hex)),
       LAMBDA h0 :
  Let1(IF Len(h0) = 3 THEN <<h0[1], h0[1], h0[2], h0[2], h0[3], h0[3]>> ELSE h0,
       LAMBDA h1 :
  Let1(IF Len(h1) = 4
       THEN <<h1[1], h1[1], h1[2], h1[2], h1[3], h1[3], h1[4], h1[4]>>
       ELSE h1, LAMBDA h :
  Let1(parseInt16(SubSeq(h, 1, Min(6, Len(h)))), LAMBDA p :
  Let1(IF IsNaN(p) THEN 0 ELSE p, LAMBDA num :
    [r |-> (num \div 65536) % 256, g |-> (num \div 256) % 256, b |-> num % 256]))))))

\* hexToOklch(hex)
hexToOklch(hex) ==
  Let1(hexToRgb(hex), LAMBDA rgb :
  Let1(rgbValuesToOklch(rgb.r * Scale, rgb.g * Scale, rgb.b * Scale), LAMBDA o :
    Ok(o.l, o.c, o.h)))

\* /rgba?\(\s*([0-9.]+)[\s,]+([0-9.]+)[\s,]+([0-9.]+)/ at position p.
rgbPatternAt(str, p) ==
  LET a0 == p + 3
      a1 == IF a0 <= Len(str) /\ str[a0] = "a" THEN a0 + 1 ELSE a0
      a  == a1 + 1
      b  == RunEnd(str, a, WhiteSpace)
      c  == RunEnd(str, b, NumClass)
      d  == RunEnd(str, c, SepClass)
      e  == RunEnd(str, d, NumClass)
      f  == RunEnd(str, e, SepClass)
      g  == RunEnd(str, f, NumClass)
  IN  IF /\ OccursAt(str, <<"r", "g", "b">>, p)
         /\ a1 <= Len(str) /\ str[a1] = "("
         /\ c > b /\ d > c /\ e > d /\ f > e /\ g > f
      THEN [ok |-> TRUE, m1 |-> SubSeq(str, b, c - 1), m2 |-> SubSeq(str, d, e - 1),
            m3 |-> SubSeq(str, f, g - 1)]
      ELSE NoMatch

\* rgbToOklch(str)
rgbToOklch(str) ==
  Let1(FirstMatch(str, rgbPatternAt), LAMBDA match :
    IF ~match.ok THEN Throw("Invalid rgb format")
    ELSE Let1(rgbValuesToOklch(parseFloat(match.m1), parseFloat(match.m2),
                               parseFloat(match.m3)), LAMBDA o :
           Ok(o.l, o.c, o.h)))

\* hueToRgb(p, q, t)
hueToRgb(p, q, t0) ==
  Let1(IF FLt(t0, 0) THEN FAdd(t0, Scale) ELSE t0, LAMBDA t1 :
  Let1(IF FLt(Scale, t1) THEN FSub(t1, Scale) ELSE t1, LAMBDA t :
    IF FLt(t, 166667) THEN FAdd(p, FMul(FMulInt(FSub(q, p), 6), t))
    ELSE IF FLt(t, 500000) THEN q
    ELSE IF FLt(t, 666667)
         THEN FAdd(p, FMulInt(FMul(FSub(q, p), FSub(666667, t)), 6))
    ELSE p))

\* hslToRgb(h, s, l): channels as scaled numbers in 0..1.
hslToRgb(h, s, l) ==
  IF s = 0 THEN [k \in {"r", "g", "b"} |-> l]
  ELSE Let2(FDivInt(h, 360),
            IF FLt(l, 500000) THEN FMul(l, FAdd(Scale, s))
            ELSE FSub(FAdd(l, s), FMul(l, s)), LAMBDA hue, q :
         [k \in {"r", "g", "b"} |->
            hueToRgb(FSub(FMulInt(l, 2), q), q,
                     IF k = "r" THEN FAdd(hue, 333333)
                     ELSE IF k = "g" THEN hue ELSE FSub(hue, 333333))])

\* /hsla?\(\s*([0-9.]+)(deg)?[\s,]+([0-9.]+)%[\s,]+([0-9.]+)%/ at position p.
hslPatternAt(str, p) ==
  LET n  == Len(str)
      a0 == p + 3
      a1 == IF a0 <= n /\ str[a0] = "a" THEN a0 + 1 ELSE a0
      a  == a1 + 1
      b  == RunEnd(str, a, WhiteSpace)
      c  == RunEnd(str, b, NumClass)
      d  == IF OccursAt(str, <<"d", "e", "g">>, c) THEN c + 3 ELSE c
      e  == RunEnd(str, d, SepClass)
      f  == RunEnd(str, e, NumClass)
      g  == RunEnd(str, f + 1, SepClass)
      h  == RunEnd(str, g, NumClass)
  IN  IF /\ OccursAt(str, <<"h", "s", "l">>, p)
         /\ a1 <= n /\ str[a1] = "("
         /\ c > b /\ e > d /\ f > e
         /\ f <= n /\ str[f] = "%"
         /\ g > f + 1 /\ h > g
         /\ h <= n /\ str[h] = "%"
      THEN [ok |-> TRUE, m1 |-> SubSeq(str, b, c - 1), m3 |-> SubSeq(str, e, f - 1),
            m4 |-> SubSeq(str, g, h - 1)]
      ELSE NoMatch

\* hslToOklch(str)
hslToOklch(str) ==
  Let1(FirstMatch(str, hslPatternAt), LAMBDA match :
    IF ~match.ok THEN Throw("Invalid hsl format")
    ELSE Let1(hslToRgb(parseFloat(match.m1), FDivInt(parseFloat(match.m3), 100),
                       FDivInt(parseFloat(match.m4), 100)), LAMBDA rgb :
         Let1(rgbValuesToOklch(FMulInt(rgb.r, 255), FMulInt(rgb.g, 255),
                               FMulInt(rgb.b, 255)), LAMBDA o :
           Ok(o.l, o.c, o.h))))

\* /^[0-9a-f]{3,8}$/i
IsBareHex(s) == Len(s) \in 3..8 /\ \A i \in DOMAIN s : s[i] \in HexClass

\* parseColor(color)
parseColor(color) ==
  IF color.t # "string" \/ color.s = <<>> THEN Throw("Invalid color")
  ELSE LET trimmed == ToLowerCase(Trim(color.s))
       IN  IF StartsWith(trimmed, <<"o", "k", "l", "c", "h", "(">>) THEN parseOklch(trimmed)
           ELSE IF StartsWith(trimmed, <<"#">>) THEN hexToOklch(trimmed)
           ELSE IF StartsWith(trimmed, <<"r", "g", "b">>) THEN rgbToOklch(trimmed)
           ELSE IF StartsWith(trimmed, <<"h", "s", "l">>) THEN hslToOklch(trimmed)
           ELSE IF IsBareHex(trimmed) THEN hexToOklch(<<"#">> \o trimmed)
           ELSE Throw("Unsupported color format")

(***************************************************************************)
(* Reference tables                                                        *)
(***************************************************************************)
SHADE_LEVELS == <<50, 100, 200, 300, 400, 500, 600, 700, 800, 900, 950>>

Levels == Range(SHADE_LEVELS)

LIGHTNESS_MAP ==
  [level \in Levels |->
     CASE level = 50 -> 970000 [] level = 100 -> 930000 [] level = 200 -> 870000
       [] level = 300 -> 780000 [] level = 400 -> 680000 [] level = 500 -> 550000
       [] level = 600 -> 480000 [] level = 700 -> 400000 [] level = 800 -> 320000
       [] level = 900 -> 240000 [] level = 950 -> 140000]

CHROMA_SCALE ==
  [level \in Levels |->
     CASE level = 50 -> 150000 [] level = 100 -> 250000 [] level = 200 -> 400000
       [] level = 300 -> 650000 [] level = 400 -> 850000 [] level = 500 -> 1000000
       [] level = 600 -> 950000 [] level = 700 -> 850000 [] level = 800 -> 750000
       [] level = 900 -> 600000 [] level = 950 -> 450000]

LIGHT_HALF_RANGE == LIGHTNESS_MAP[50] - LIGHTNESS_MAP[500]

DARK_HALF_RANGE == LIGHTNESS_MAP[500] - LIGHTNESS_MAP[950]

\* RELATIVE_POSITION: no entry for level 500.
RELATIVE_POSITION ==
  [level \in Levels \ {500} |->
     IF level < 500
     THEN Div(LIGHTNESS_MAP[level] - LIGHTNESS_MAP[500], LIGHT_HALF_RANGE)
     ELSE Div(LIGHTNESS_MAP[500] - LIGHTNESS_MAP[level], DARK_HALF_RANGE)]

\* The own properties of MODE_CONFIG.
MODE_CONFIG ==
  [fixed   |-> [hueShift |-> [light |-> 0, dark |-> 0], chromaBoost |-> 1000000,
                lightEndChroma |-> 150000, darkEndChroma |-> 450000],
   natural |-> [hueShift |-> [light |-> 5 * Scale, dark |-> 0 - 15 * Scale],
                chromaBoost |-> 1100000,
                lightEndChroma |-> 200000, darkEndChroma |-> 400000],
   vivid   |-> [hueShift |-> [light |-> 3 * Scale, dark |-> 0 - 10 * Scale],
                chromaBoost |-> 1400000,
                lightEndChroma |-> 350000, darkEndChroma |-> 550000]]

\* Property names every object literal inherits from Object.prototype: for
\* these MODE_CONFIG[mode] is a function or an object, truthy, with no
\* hueShift property.
ObjectPrototypeKeys ==
  {"constructor", "toString", "toLocaleString", "valueOf", "hasOwnProperty",
   "isPrototypeOf", "propertyIsEnumerable", "__proto__"}

\* MODE_CONFIG[mode] || MODE_CONFIG.fixed
ConfigFor(mode) ==
  IF mode \in DOMAIN MODE_CONFIG THEN [hasHueShift |-> TRUE, cfg |-> MODE_CONFIG[mode]]
  ELSE IF mode \in ObjectPrototypeKeys
       THEN [hasHueShift |-> FALSE, cfg |-> MODE_CONFIG.fixed]
  ELSE [hasHueShift |-> TRUE, cfg |-> MODE_CONFIG.fixed]

(***************************************************************************)
(* GamutMapper                                                             *)
(***************************************************************************)
\* inGamut(r, g, b) for the channels oklchToRgb returns (integers, or NaN):
\* r >= -0.5 && r <= 255.5 && ...
inGamut(r, g, b) ==
  \A x \in {r, g, b} : ~IsNaN(x) /\ 2 * x >= 0 - 1 /\ 2 * x <= 511

BisectIterations == 8

\* The local variables of findMaxChroma on entry.
FindInit(l, h, idealC) ==
  [l |-> l, h |-> h, idealC |-> idealC, minC |-> 0, maxC |-> idealC, bestC |-> 0, i |-> 0]

\* The midpoint a pass of the loop tests: (minC + maxC) / 2.
FindMid(st) == FDivInt(FAdd(st.minC, st.maxC), 2)

\* The loop body with the bug of returning the upper end of the bracket
\* instead of the midpoint that was tested.
FindStep_UpperEnd(st) ==
  Let1(oklchToRgb(st.l, FindMid(st), st.h), LAMBDA rgb :
    IF inGamut(rgb.r, rgb.g, rgb.b)
    THEN [st EXCEPT !.bestC = st.maxC, !.minC = FindMid(st), !.i = @ + 1]
    ELSE [st EXCEPT !.maxC = FindMid(st), !.i = @ + 1])

\* One pass through the body of the loop of findMaxChroma.
FindStep(st) ==
  Let2(FindMid(st), oklchToRgb(st.l, FindMid(st), st.h), LAMBDA midC, rgb :
    IF inGamut(rgb.r, rgb.g, rgb.b)
    THEN [st EXCEPT !.bestC = midC, !.minC = midC, !.i = @ + 1]
    ELSE [st EXCEPT !.maxC = midC, !.i = @ + 1])

RECURSIVE FindLoop(_)
FindLoop(st) ==
  IF st.i < BisectIterations THEN Let1(FindStep(st), LAMBDA next : FindLoop(next)) ELSE st

\* findMaxChroma(l, h, idealC)
findMaxChroma(l, h, idealC) == FindLoop(FindInit(l, h, idealC)).bestC

(***************************************************************************)
(* ShadeCurveEngine                                                        *)
(***************************************************************************)
\* quadBezier(a, control, b, t)
quadBezier(a, control, b, t) ==
  LET mt == FSub(Scale, t)
  IN  FAdd(FAdd(FMul(FMul(mt, mt), a), FMul(FMul(FMulInt(mt, 2), t), control)),
           FMul(FMul(t, t), b))

\* lerp(a, b, t)
lerp(a, b, t) == FAdd(a, FMul(FSub(b, a), t))

\* normalizeHue(h): the remainder of JavaScript has the sign of the dividend.
normalizeHue(h) ==
  IF IsNaN(h) THEN NaN
  ELSE LET m == IF h >= 0 THEN h % (360 * Scale) ELSE 0 - ((0 - h) % (360 * Scale))
       IN  IF m < 0 THEN m + 360 * Scale ELSE m

\* isWarmColor(h)
isWarmColor(h) == (FLe(0, h) /\ FLt(h, 120 * Scale)) \/ FLt(300 * Scale, h)

\* One entry of the object a shade algorithm returns: the text stored under
\* the level, and the lightness, chroma and hue that text renders.
Shade(text, l, c, h) == [text |-> text, l |-> l, c |-> c, h |-> h]

\* The entry of level 500 with the bug of never echoing the caller's text.
ExactShade_Canonical(base, originalColor, format) ==
  IF format = "hex"
  THEN Shade(formatHexFromOklch(base), base.l, base.c, base.h)
  ELSE Shade(formatOklch(base.l, base.c, base.h), base.l, base.c, base.h)

\* The entry of level 500 under exact match.
ExactShade(base, originalColor, format) ==
  IF format = "hex"
  THEN Shade(IF StartsWith(originalColor, <<"#">>) THEN originalColor
             ELSE formatHexFromOklch(base),
             base.l, base.c, base.h)
  ELSE Shade(formatOklch(base.l, base.c, base.h), base.l, base.c, base.h)

\* The tail of both loop bodies: gamut mapping, then formatting.
MappedShade(targetL, targetC, targetH, format) ==
  Let1(findMaxChroma(targetL, targetH, targetC), LAMBDA safeC :
    IF format = "hex"
    THEN Let1(oklchToRgb(targetL, safeC, targetH), LAMBDA rgb :
           Shade(formatHex(rgb.r, rgb.g, rgb.b), targetL, safeC, targetH))
    ELSE Shade(formatOklch(targetL, safeC, targetH), targetL, safeC, targetH))

\* The target lightness with the bug of keeping the input's lightness at
\* level 500 when exact match is off.
FixedTargetL_InputAt500(base, smart, level) ==
  IF smart
  THEN IF level < 500
       THEN FAdd(base.l, FMul(RELATIVE_POSITION[level], FSub(LIGHTNESS_MAP[50], base.l)))
       ELSE FSub(base.l, FMul(RELATIVE_POSITION[level], FSub(base.l, LIGHTNESS_MAP[950])))
  ELSE IF level = 500 THEN base.l ELSE LIGHTNESS_MAP[level]

\* The target lightness of generateFixedShades for a level other than an
\* exact-match 500.
FixedTargetL(base, smart, level) ==
  IF smart
  THEN IF level < 500
       THEN FAdd(base.l, FMul(RELATIVE_POSITION[level], FSub(LIGHTNESS_MAP[50], base.l)))
       ELSE FSub(base.l, FMul(RELATIVE_POSITION[level], FSub(base.l, LIGHTNESS_MAP[950])))
  ELSE LIGHTNESS_MAP[level]

\* The loop body with the bug of applying the hue shift of mode 'natural'
\* to the light levels.
FixedShade_HueShift(base, originalColor, format, exactMatch, level) ==
  IF exactMatch # "false" /\ level = 500 THEN ExactShade(base, originalColor, format)
  ELSE MappedShade(FixedTargetL(base, exactMatch # "false", level),
                   FMul(base.c, CHROMA_SCALE[level]),
                   IF level < 500 THEN FAdd(base.h, MODE_CONFIG.natural.hueShift.light)
                   ELSE base.h,
                   format)

\* The body of the loop of generateFixedShades for one level.
FixedShade(base, originalColor, format, exactMatch, level) ==
  LET smart == exactMatch # "false"
  IN  IF smart /\ level = 500 THEN ExactShade(base, originalColor, format)
      ELSE MappedShade(FixedTargetL(base, smart, level),
                       FMul(base.c, CHROMA_SCALE[level]), base.h, format)

\* The endpoints with the bug of giving the dark end the light end's shift.
EnhancedSetup_SameShift(base, config) ==
  LET hueShiftLight == IF isWarmColor(base.h) THEN config.hueShift.light
                       ELSE 0 - config.hueShift.light
  IN  [lightEnd |-> [l |-> LIGHTNESS_MAP[50],
                     c |-> FMul(base.c, config.lightEndChroma),
                     h |-> normalizeHue(FAdd(base.h, hueShiftLight))],
       darkEnd  |-> [l |-> LIGHTNESS_MAP[950],
                     c |-> FMul(base.c, config.darkEndChroma),
                     h |-> normalizeHue(FAdd(base.h, hueShiftLight))],
       peakChroma |-> FMul(base.c, config.chromaBoost)]

\* The endpoints and the peak chroma generateEnhancedShades computes before
\* its loop.
EnhancedSetup(base, config) ==
  LET isWarm == isWarmColor(base.h)
      hueShiftLight == IF isWarm THEN config.hueShift.light ELSE 0 - config.hueShift.light
      hueShiftDark  == IF isWarm THEN config.hueShift.dark ELSE 0 - config.hueShift.dark
  IN  [lightEnd |-> [l |-> LIGHTNESS_MAP[50],
                     c |-> FMul(base.c, config.lightEndChroma),
                     h |-> normalizeHue(FAdd(base.h, hueShiftLight))],
       darkEnd  |-> [l |-> LIGHTNESS_MAP[950],
                     c |-> FMul(base.c, config.darkEndChroma),
                     h |-> normalizeHue(FAdd(base.h, hueShiftDark))],
       peakChroma |-> FMul(base.c, config.chromaBoost)]

\* The loop body with the bug of putting level 500 on the curve too.
EnhancedShade_NoExact(base, originalColor, format, config, exactMatch, i) ==
  IF i <= 5
  THEN MappedShade(lerp(LIGHTNESS_MAP[50], base.l, (i * Scale) \div 5),
                   FMul(base.c, config.chromaBoost), base.h, format)
  ELSE MappedShade(lerp(base.l, LIGHTNESS_MAP[950], ((i - 5) * Scale) \div 5),
                   FMul(base.c, config.chromaBoost), base.h, format)

\* The body of the loop of generateEnhancedShades for index i (0-based).
EnhancedShade(base, originalColor, format, config, exactMatch, i) ==
  IF exactMatch # "false" /\ SHADE_LEVELS[i + 1] = 500
  THEN ExactShade(base, originalColor, format)
  ELSE Let2(EnhancedSetup(base, config),
            IF i <= 5 THEN (i * Scale) \div 5 ELSE ((i - 5) * Scale) \div 5,
            LAMBDA su, t :
       \* The curve runs from lightEnd to the base colour at peak chroma on
       \* the light half, from there to darkEnd on the dark half.
       Let2(IF i <= 5 THEN su.lightEnd ELSE [l |-> base.l, c |-> su.peakChroma, h |-> base.h],
            IF i <= 5 THEN [l |-> base.l, c |-> su.peakChroma, h |-> base.h] ELSE su.darkEnd,
            LAMBDA from, to :
         MappedShade(lerp(from.l, to.l, t),
                     quadBezier(from.c, FDivInt(FAdd(from.c, to.c), 2), to.c, t),
                     normalizeHue(lerp(from.h, to.h, t)), format)))

(***************************************************************************)
(* Inputs                                                                  *)
(***************************************************************************)
Null == [t |-> "object", s |-> <<>>]

\* Colour arguments of generateShades, the first NumColors of which are used.
SampleColors ==
  << Str(<<"#", "3", "b", "8", "2", "f", "6">>),
     Str(<<"#", "A", "B", "C">>),
     Str(<<"e", "3", "1", "9", "3", "7">>),
     Str(<<"#", "f", "a", "f", "a", "f", "a">>),
     Str(<<"#", "f", "f", "0", "0", "0", "0">>),
     Str(<<"o", "k", "l", "c", "h", "(", "0", ".", "5", " ", "0", ".", "2", " ",
           "4", "0", "0", ")">>),
     Str(<<"r", "g", "b", "(", "2", "4", "9", ",", " ", "1", "1", "5", ",", " ",
           "2", "2", ")">>),
     Str(<<"h", "s", "l", "(", "2", "1", "7", ",", " ", "9", "1", "%", ",", " ",
           "6", "0", "%", ")">>),
     Str(<<"#", "z", "z", "z">>),
     Str(<<"i", "n", "v", "a", "l", "i", "d">>),
     Null,
     Str(<<>>),
     Str(<<"#", "0", "a", "0", "a", "0", "a">>),
     Str(<<" ", "#", "E", "3", "1", "9", "3", "7">>),
     Str(<<"o", "k", "l", "c", "h", "(", "5", "5", "%", " ", "0", ".", "2", " ",
           ".", ")">>),
     Str(<<"#", "d", "b", "2", "7", "7", "7">>),
     Str(<<"#", "1", "0", "b", "9", "8", "1">>),
     Str(<<"#", "3", "B", "8", "2", "F", "6", "f", "f">>) >>

NumColors == 16

Colors == {SampleColors[i] : i \in 1..Min(NumColors, Len(SampleColors))}

\* The options argument: "undefined" stands for a key that is left out.
Modes == {"undefined", "fixed", "natural", "vivid", "bogus", "constructor"}

Formats == {"undefined", "oklch", "hex"}

ExactMatches == {"undefined", "true", "false"}

OptionSets == [format : Formats, mode : Modes, exactMatch : ExactMatches]

(***************************************************************************)
(* generateShades as a process                                             *)
(***************************************************************************)
VARIABLES
  pc,       \* "idle", "fixed" (in generateFixedShades), "enhanced", "done"
  color,    \* the first argument
  options,  \* the second argument
  base,     \* parseColor(color)
  config,   \* the mode configuration chosen
  idx,      \* the 0-based position of the loop in SHADE_LEVELS
  shades,   \* the object under construction: level -> Shade
  outcome,  \* "none", "returned", or the error thrown
  find,     \* the local variables of a call of findMaxChroma
  tested,   \* the midpoints that call has tested, each with its gamut verdict
  arg,      \* the arguments of a call of one of the other exported functions
  ret,      \* what that call has built or returned so far
  heap      \* the arrays alive: the module's level table and the copies handed out

vars == <<pc, color, options, base, config, idx, shades, outcome, find, tested,
          arg, ret, heap>>

\* No call of another exported function is under way.
NoCall == [none |-> TRUE]

\* The heap when the module has been loaded: address 0 holds SHADE_LEVELS.
LoadedHeap == [a \in {0} |-> SHADE_LEVELS]

\* const { format = 'oklch', mode = 'fixed', exactMatch } = options
FormatOf(o) == IF o.format = "undefined" THEN "oklch" ELSE o.format

ModeOf(o) == IF o.mode = "undefined" THEN "fixed" ELSE o.mode

NoShades == [level \in {} |-> Shade(<<>>, 0, 0, 0)]

Init ==
  /\ pc = "idle"
  /\ color \in Colors
  /\ options \in OptionSets
  /\ base = Throw("none")
  /\ config = MODE_CONFIG.fixed
  /\ idx = 0
  /\ shades = NoShades
  /\ outcome = "none"
  /\ find = FindInit(0, 0, 0)
  /\ tested = <<>>
  /\ arg = NoCall
  /\ ret = NoCall
  /\ heap = LoadedHeap

\* generateShades up to the call of one of the two algorithms; for the
\* enhanced algorithm, up to its loop.
Enter ==
  /\ pc = "idle"
  /\ base' = parseColor(color)
  /\ config' = ConfigFor(ModeOf(options)).cfg
  /\ IF ~base'.ok
     THEN pc' = "done" /\ outcome' = base'.err
     ELSE IF ModeOf(options) = "fixed"
     THEN pc' = "fixed" /\ outcome' = "none"
     ELSE IF ~ConfigFor(ModeOf(options)).hasHueShift
     THEN pc' = "done" /\ outcome' = "TypeError"
     ELSE pc' = "enhanced" /\ outcome' = "none"
  /\ UNCHANGED <<color, options, idx, shades, find, tested, arg, ret, heap>>

\* One iteration of the loop of generateFixedShades.
FixedLevel ==
  /\ pc = "fixed"
  /\ idx < Len(SHADE_LEVELS)
  /\ shades' = shades @@ (SHADE_LEVELS[idx + 1] :>
                            FixedShade(base, color.s, FormatOf(options),
                                       options.exactMatch, SHADE_LEVELS[idx + 1]))
  /\ idx' = idx + 1
  /\ UNCHANGED <<pc, color, options, base, config, outcome, find, tested, arg, ret, heap>>

\* One iteration of the loop of generateEnhancedShades.
EnhancedLevel ==
  /\ pc = "enhanced"
  /\ idx < Len(SHADE_LEVELS)
  /\ shades' = shades @@ (SHADE_LEVELS[idx + 1] :>
                            EnhancedShade(base, color.s, FormatOf(options),
                                          config, options.exactMatch, idx))
  /\ idx' = idx + 1
  /\ UNCHANGED <<pc, color, options, base, config, outcome, find, tested, arg, ret, heap>>

\* return shades
Return ==
  /\ pc \in {"fixed", "enhanced"}
  /\ idx = Len(SHADE_LEVELS)
  /\ pc' = "done"
  /\ outcome' = "returned"
  /\ UNCHANGED <<color, options, base, config, idx, shades, find, tested, arg, ret, heap>>

Next == Enter \/ FixedLevel \/ EnhancedLevel \/ Return

Spec == Init /\ [][Next]_vars

Returned == pc = "done" /\ outcome = "returned"

(***************************************************************************)
(* findMaxChroma as a process                                              *)
(***************************************************************************)
\* Arguments of findMaxChroma: lightness and hue of shades the algorithms
\* ask for, and NaN, which a colour text such as 'oklch(. 0.2 30)' brings in.
ChromaLightness == {970000, 544600, 140000, NaN}

ChromaHues == {29233890, 259813958, NaN}

ChromaDesired == {0, 1, 50000, 243800}

InitChroma ==
  /\ pc = "find"
  /\ color = Null
  /\ options = [format |-> "undefined", mode |-> "undefined", exactMatch |-> "undefined"]
  /\ base = Throw("none")
  /\ config = MODE_CONFIG.fixed
  /\ idx = 0
  /\ shades = NoShades
  /\ outcome = "none"
  /\ find \in {FindInit(l, h, idealC) :
                 l \in ChromaLightness, h \in ChromaHues, idealC \in ChromaDesired}
  /\ tested = <<>>
  /\ arg = NoCall
  /\ ret = NoCall
  /\ heap = LoadedHeap

\* One iteration of the loop of findMaxChroma.
FindIterate ==
  /\ pc = "find"
  /\ find.i < BisectIterations
  /\ find' = FindStep(find)
  /\ tested' = Append(tested,
                      Let1(oklchToRgb(find.l, FindMid(find), find.h), LAMBDA rgb :
                        [c |-> FindMid(find), inGamut |-> inGamut(rgb.r, rgb.g, rgb.b)]))
  /\ UNCHANGED <<pc, color, options, base, config, idx, shades, outcome, arg, ret, heap>>

\* return bestC
FindReturn ==
  /\ pc = "find"
  /\ find.i >= BisectIterations
  /\ pc' = "found"
  /\ outcome' = "returned"
  /\ UNCHANGED <<color, options, base, config, idx, shades, find, tested, arg, ret, heap>>

NextChroma == FindIterate \/ FindReturn

SpecChroma == InitChroma /\ [][NextChroma]_vars

(***************************************************************************)
(* The other exported functions, each as a call                            *)
(***************************************************************************)
\* The variables of the generateShades and findMaxChroma processes.
shadeVars == <<color, options, base, config, idx, shades, find, tested>>

\* Neither of those processes runs.
IdleShades ==
  /\ color = Null
  /\ options = [format |-> "undefined", mode |-> "undefined", exactMatch |-> "undefined"]
  /\ base = Throw("none")
  /\ config = MODE_CONFIG.fixed
  /\ idx = 0
  /\ shades = NoShades
  /\ find = FindInit(0, 0, 0)
  /\ tested = <<>>

\* A value that is no text: a number, undefined.
Number == [t |-> "number", s |-> <<>>]

Undefined == [t |-> "undefined", s |-> <<>>]

\* The texts over a few characters, up to MaxTextLen characters long.
MaxTextLen == 3

\* isValidColor with the bug of testing only that the argument is a text.
isValidColor_TextsOnly(col) == [threw |-> FALSE, value |-> col.t = "string" /\ col.s # <<>>]

\* isValidColor(color): what it returns, and whether it threw.
isValidColor(col) == [threw |-> FALSE, value |-> parseColor(col).ok]

\* normalizePaletteRef(value): a bare palette reference becomes a var(),
\* every other value is returned as it is.
normalizePaletteRef(value) ==
  IF value.t # "string" THEN value
  ELSE IF IndexOf(value.s, "(") # 0 THEN value
  ELSE IF StartsWith(value.s, <<"#">>) THEN value
  ELSE
    Let1(SubSeq(value.s, RunEnd(SubSeq(value.s, 1, Min(2, Len(value.s))), 1, {"-"}),
                Len(value.s)), LAMBDA bare :
    Let1(IndexOf(bare, "-"), LAMBDA dash :
      IF /\ dash > 1
         /\ bare[1] \in Range(LowerChars)
         /\ \A i \in 2..(dash - 1) : bare[i] \in Range(LowerChars) \cup DigitClass
         /\ dash < Len(bare)
         /\ \A i \in (dash + 1)..Len(bare) : bare[i] \in DigitClass
         /\ DecValue(SubSeq(bare, dash + 1, Len(bare))) \in Levels
      THEN Str(<<"v", "a", "r", "(", "-", "-">> \o bare \o <<")">>)
      ELSE value))

\* getShadeLevels with the bug of returning the table itself.
getShadeLevels_Alias(h) == [heap |-> h, addr |-> 0]

\* getShadeLevels(): a new array with the elements of the table. The heap
\* maps the address of each array to its elements; the table is at 0.
getShadeLevels(h) ==
  Let1(Cardinality(DOMAIN h), LAMBDA a :
    [heap |-> [x \in DOMAIN h \cup {a} |-> IF x = a THEN h[0] ELSE h[x]], addr |-> a])

\* The arrays a caller asks for, and how far it grows or shrinks one.
MaxArrays == 2
MaxResize == 1

\* The value a caller writes into an array.
Foreign == 999

\* The calls: the function called and its arguments.
CallArgs ==
  LET
      ShortTexts ==
        UNION {[1..n -> {"#", "a", "z", " "}] : n \in 0..MaxTextLen}
      \* Context token values: a prefix of dashes, a name, a dash and a numeral,
      \* and values of the other kinds.
      TokenValues ==
        LET prefixes == {<<>>, <<"-">>, <<"-", "-">>, <<"-", "-", "-">>}
            names    == {<<"p">>, <<"p", "2">>, <<"2", "p">>, <<"P">>, <<"p", "-", "q">>, <<>>}
            numerals == {<<"5", "0">>, <<"5", "0", "0">>, <<"9", "5", "0">>, <<"0", "5", "0", "0">>,
                         <<"5", "5">>, <<"5", "0", "x">>, <<>>}
        IN  {Str(pre \o n \o <<"-">> \o d) : pre \in prefixes, n \in names, d \in numerals}
            \cup {Str(<<"v", "a", "r", "(", "-", "-", "p", "-", "5", "0", "0", ")">>),
                  Str(<<"p", "-", "5", "0", "0", "(">>), Str(<<"#", "f", "f", "f">>),
                  Str(<<"#", "-", "5", "0">>), Str(<<"r", "e", "d">>), Str(<<>>),
                  Null, Number, Undefined}
      \* Hex texts in every accepted form: three or four single digits, or three
      \* pairs with or without an alpha pair, each with and without the '#'.
      HexForms ==
        LET digits == {"0", "c", "F"}
            pairs  == {<<"0", "c">>, <<"F", "0">>, <<"c", "F">>}
            short  == [1..3 -> digits] \cup [1..4 -> digits]
            long   == {p \o q \o r \o a : p \in pairs, q \in pairs, r \in pairs,
                                           a \in {<<>>, <<"8", "0">>, <<"F", "f">>}}
        IN  {pre \o t : pre \in {<<>>, <<"#">>}, t \in short \cup long}
      \* Channel values: the ends of the range and values around the one-digit
      \* numerals.
      ChannelSamples ==
        {0, 9, 10, 15, 16, 171, 255}
  IN
    {[fn |-> "isValidColor", v |-> v] :
       v \in {Str(t) : t \in ShortTexts} \cup Colors \cup {Null, Number, Undefined}}
    \cup {[fn |-> "parseColor", v |-> Str(t)] : t \in HexForms}
    \cup {[fn |-> "normalizePaletteRef", v |-> v] : v \in TokenValues}
    \cup {[fn |-> "getShadeLevels"]}
    \cup {[fn |-> "formatHex", r |-> r, g |-> g, b |-> b] :
            r \in ChannelSamples, g \in ChannelSamples, b \in ChannelSamples}

InitCalls ==
  /\ pc = "call"
  /\ outcome = "none"
  /\ arg \in CallArgs
  /\ ret = NoCall
  /\ heap = LoadedHeap
  /\ IdleShades

CallIsValidColor ==
  /\ pc = "call"
  /\ arg.fn = "isValidColor"
  /\ ret' = isValidColor(arg.v)
  /\ pc' = "called"
  /\ outcome' = IF ret'.threw THEN "threw" ELSE "returned"
  /\ UNCHANGED <<arg, heap>>
  /\ UNCHANGED shadeVars

CallParseColor ==
  /\ pc = "call"
  /\ arg.fn = "parseColor"
  /\ ret' = parseColor(arg.v)
  /\ pc' = "called"
  /\ outcome' = IF ret'.ok THEN "returned" ELSE ret'.err
  /\ UNCHANGED <<arg, heap>>
  /\ UNCHANGED shadeVars

CallFormatHex ==
  /\ pc = "call"
  /\ arg.fn = "formatHex"
  /\ ret' = formatHex(arg.r, arg.g, arg.b)
  /\ pc' = "called"
  /\ outcome' = "returned"
  /\ UNCHANGED <<arg, heap>>
  /\ UNCHANGED shadeVars

\* processTheme's step for one token of a context.
CallNormalizePaletteRef ==
  /\ pc = "call"
  /\ arg.fn = "normalizePaletteRef"
  /\ ret' = normalizePaletteRef(arg.v)
  /\ pc' = "called"
  /\ outcome' = "returned"
  /\ UNCHANGED <<arg, heap>>
  /\ UNCHANGED shadeVars

\* A caller calls getShadeLevels, again and again, and keeps what it returns.
CallGetShadeLevels ==
  /\ pc \in {"call", "called"}
  /\ arg.fn = "getShadeLevels"
  /\ Cardinality(DOMAIN heap) <= MaxArrays
  /\ heap' = getShadeLevels(heap).heap
  /\ ret' = [addr |-> getShadeLevels(heap).addr,
             held |-> (IF pc = "call" THEN {} ELSE ret.held) \cup {getShadeLevels(heap).addr},
             fresh |-> TRUE,
             keys |-> IF pc = "call" THEN {} ELSE ret.keys]
  /\ pc' = "called"
  /\ outcome' = "returned"
  /\ UNCHANGED arg
  /\ UNCHANGED shadeVars

\* The caller changes an array it holds: push, pop, or an assignment to an
\* element.
Mutate ==
  /\ pc = "called"
  /\ arg.fn = "getShadeLevels"
  /\ \E a \in ret.held :
       \/ /\ Len(heap[a]) < Len(SHADE_LEVELS) + MaxResize
          /\ heap' = [heap EXCEPT ![a] = Append(@, Foreign)]
       \/ /\ Len(heap[a]) > Len(SHADE_LEVELS) - MaxResize
          /\ heap' = [heap EXCEPT ![a] = SubSeq(@, 1, Len(@) - 1)]
       \/ \E i \in {1, Len(heap[a])} :
            heap' = [heap EXCEPT ![a][i] = Foreign]
  /\ ret' = [ret EXCEPT !.fresh = FALSE]
  /\ UNCHANGED <<pc, outcome, arg>>
  /\ UNCHANGED shadeVars

\* The keys of the ramp generateShades builds: one for each element of the
\* table, as the table is at the time of the call.
CallGenerateShades ==
  /\ pc = "called"
  /\ arg.fn = "getShadeLevels"
  /\ ret' = [ret EXCEPT !.keys = Range(heap[0])]
  /\ UNCHANGED <<pc, outcome, arg, heap>>
  /\ UNCHANGED shadeVars

NextCalls ==
  \/ CallIsValidColor \/ CallParseColor \/ CallFormatHex \/ CallNormalizePaletteRef
  \/ CallGetShadeLevels \/ Mutate \/ CallGenerateShades

SpecCalls == InitCalls /\ [][NextCalls]_vars

(***************************************************************************)
(* generatePalettes                                                        *)
(***************************************************************************)
\* generateShades(color, options) as one call: the ramp, or the error thrown.
generateShades(col, o) ==
  Let1(parseColor(col), LAMBDA b :
    IF ~b.ok THEN [ok |-> FALSE, err |-> b.err, shades |-> NoShades]
    ELSE IF ModeOf(o) = "fixed"
    THEN [ok |-> TRUE, err |-> "none",
          shades |-> [level \in Levels |->
                        FixedShade(b, col.s, FormatOf(o), o.exactMatch, level)]]
    ELSE IF ~ConfigFor(ModeOf(o)).hasHueShift
    THEN [ok |-> FALSE, err |-> "TypeError", shades |-> NoShades]
    ELSE [ok |-> TRUE, err |-> "none",
          shades |-> [level \in Levels |->
                        EnhancedShade(b, col.s, FormatOf(o), ConfigFor(ModeOf(o)).cfg,
                                      o.exactMatch,
                                      (CHOOSE i \in DOMAIN SHADE_LEVELS :
                                         SHADE_LEVELS[i] = level) - 1)]])

\* A colour entry that is an object: its identity, its 'base' (Undefined
\* when it has none), its generateShades options ("absent" for a key it
\* does not have) and its other keys.
Obj(id, b, opts, keys) ==
  [t |-> "object", s |-> <<>>, id |-> id, base |-> b, opts |-> opts, keys |-> keys]

NoOpts == [format |-> "absent", mode |-> "absent", exactMatch |-> "absent"]

\* The truth value of a string, null, undefined, an object, a function or
\* a number other than zero.
Truthy(v) ==
  \/ v.t = "object" /\ v # Null
  \/ v.t \in {"function", "number"}
  \/ v.t = "string" /\ v.s # <<>>

\* isNaN(parseInt(k)) with the bug of taking no key for a number.
parseIntIsNaN_Always(k) == TRUE

\* isNaN(parseInt(k)): parseInt skips white space and a sign, then reads a
\* digit, or hex digits after '0x'.
parseIntIsNaN(k) ==
  Let1(RunEnd(k, 1, WhiteSpace), LAMBDA i :
  Let1(IF i <= Len(k) /\ k[i] \in {"+", "-"} THEN i + 1 ELSE i, LAMBDA j :
    IF OccursAt(k, <<"0", "x">>, j) \/ OccursAt(k, <<"0", "X">>, j)
    THEN ~(j + 2 <= Len(k) /\ k[j + 2] \in HexClass)
    ELSE ~(j <= Len(k) /\ k[j] \in DigitClass)))

\* { ...options, ...colorOptions } with the bug of letting the defaults win.
MergeOptions_DefaultsWin(defaults, colorOptions) ==
  [k \in DOMAIN defaults |->
     IF defaults[k] = "undefined" /\ colorOptions[k] # "absent"
     THEN colorOptions[k] ELSE defaults[k]]

\* { ...options, ...colorOptions }
MergeOptions(defaults, colorOptions) ==
  [k \in DOMAIN defaults |->
     IF colorOptions[k] = "absent" THEN defaults[k] ELSE colorOptions[k]]

\* One iteration of the loop of generatePalettes: what the entry gives.
PaletteEntry(colorConfig, defaults) ==
  IF /\ colorConfig.t = "object" /\ colorConfig # Null
     /\ ~Truthy(colorConfig.base)
     /\ \E k \in colorConfig.keys : ~parseIntIsNaN(k)
  THEN [kind |-> "same", value |-> colorConfig]
  ELSE IF colorConfig.t = "object" /\ colorConfig # Null /\ Truthy(colorConfig.base)
  THEN [kind |-> "shades",
        value |-> generateShades(colorConfig.base,
                                 MergeOptions(defaults, colorConfig.opts))]
  ELSE IF colorConfig.t = "string"
  THEN [kind |-> "shades", value |-> generateShades(colorConfig, defaults)]
  ELSE [kind |-> "none", value |-> colorConfig]

\* The loop of generatePalettes over the entries of colors, in their order.
RECURSIVE PalettesFrom(_, _, _)
PalettesFrom(colors, defaults, palettes) ==
  IF colors = <<>> THEN [ok |-> TRUE, err |-> "none", palettes |-> palettes]
  ELSE Let1(PaletteEntry(Head(colors).value, defaults), LAMBDA p :
         IF p.kind = "shades" /\ ~p.value.ok
         THEN [ok |-> FALSE, err |-> p.value.err, palettes |-> <<>>]
         ELSE PalettesFrom(Tail(colors), defaults,
                           IF p.kind = "none" THEN palettes
                           ELSE (Head(colors).name :> p) @@ palettes))

\* generatePalettes with the bug of keeping the first entry's options for
\* the entries after it.
generatePalettes_Carry(colors, defaults) ==
  PalettesFrom(colors,
               IF colors # <<>> /\ Head(colors).value.t = "object" /\ Head(colors).value # Null
               THEN MergeOptions(defaults, Head(colors).value.opts) ELSE defaults,
               <<>>)

\* generatePalettes(colors, options)
generatePalettes(colors, defaults) == PalettesFrom(colors, defaults, <<>>)

(***************************************************************************)
(* processTheme: the colours of a theme                                    *)
(***************************************************************************)
NEUTRAL_PRESETS ==
  (<<"s", "t", "o", "n", "e">> :> <<"#", "7", "8", "7", "1", "6", "c">>)
  @@ (<<"z", "i", "n", "c">> :> <<"#", "7", "1", "7", "1", "7", "a">>)
  @@ (<<"g", "r", "a", "y">> :> <<"#", "6", "b", "7", "2", "8", "0">>)
  @@ (<<"s", "l", "a", "t", "e">> :> <<"#", "6", "4", "7", "4", "8", "b">>)
  @@ (<<"n", "e", "u", "t", "r", "a", "l">> :> <<"#", "7", "3", "7", "3", "7", "3">>)

\* NEUTRAL_PRESETS[value] with the bug of knowing no preset.
PresetOf_None(value) == Undefined

\* NEUTRAL_PRESETS[value]: a preset, undefined, or for a key every object
\* inherits ('constructor', 'toString') a function.
PresetOf(value) ==
  IF value.s \in DOMAIN NEUTRAL_PRESETS THEN Str(NEUTRAL_PRESETS[value.s])
  ELSE IF value.s \in {<<"c", "o", "n", "s", "t", "r", "u", "c", "t", "o", "r">>,
                       <<"t", "o", "S", "t", "r", "i", "n", "g">>}
  THEN [t |-> "function", s |-> <<>>]
  ELSE Undefined

DEFAULT_COLORS ==
  << [name |-> "primary",   value |-> Str(<<"#", "3", "b", "8", "2", "f", "6">>)],
     [name |-> "secondary", value |-> Str(<<"#", "6", "4", "7", "4", "8", "b">>)],
     [name |-> "accent",    value |-> Str(<<"#", "8", "b", "5", "c", "f", "6">>)],
     [name |-> "neutral",   value |-> Str(<<"#", "7", "8", "7", "1", "6", "c">>)] >>

\* The values that are no object, or null: a section of a config is one of
\* these, or a mapping (the sequence of its entries), or an array.
NonObject(v) ==
  \E n \in {Undefined, Null, Number, Str(<<>>), Str(<<"x">>),
             Str(<<"l", "i", "g", "h", "t">>)} : v = n

\* validateColors(colors): the entries an error is recorded for, in order.
validateColors(colors) ==
  IF NonObject(colors) THEN <<>>
  ELSE SelectSeq(colors, LAMBDA c :
         /\ ~(c.value.t = "object" /\ c.value # Null)
         /\ \/ c.value.t # "string"
            \/ /\ ~(c.name = "neutral" /\ Truthy(PresetOf(c.value)))
               /\ ~isValidColor(c.value).value)

\* validateContexts(contexts): the entries an error is recorded for.
validateContexts(contexts) ==
  IF NonObject(contexts) THEN <<>>
  ELSE SelectSeq(contexts, LAMBDA c :
         \/ c.name \notin {"light", "medium", "dark"}
         \/ c.value.t # "object"
         \/ c.value = Null)

\* validateFonts(fonts): the items an error is recorded for, or the
\* TypeError of reading the url of null. fonts.import is an array (the
\* sequence of its items) or a value that is no object.
validateFonts(fonts) ==
  IF NonObject(fonts) \/ fonts.import = Undefined
  THEN [threw |-> FALSE, errors |-> <<>>]
  ELSE IF NonObject(fonts.import)
  THEN [threw |-> FALSE, errors |-> <<fonts.import>>]
  ELSE IF \E i \in DOMAIN fonts.import :
            /\ fonts.import[i] = Null
            /\ \A j \in 1..(i - 1) : fonts.import[j] # Null
  THEN [threw |-> TRUE, errors |-> <<>>]
  ELSE [threw |-> FALSE,
        errors |-> SelectSeq(fonts.import, LAMBDA item :
                     item.t # "object" \/ ~Truthy(item.url))]

\* validateAppearance(appearance): the values an error is recorded for.
\* appearance.schemes is an array or a value that is no object.
validateAppearance(appearance) ==
  IF NonObject(appearance)
  THEN IF appearance.t = "string"
          /\ appearance.s \notin {<<"l", "i", "g", "h", "t">>, <<"d", "a", "r", "k">>,
                                  <<"s", "y", "s", "t", "e", "m">>}
       THEN <<appearance>> ELSE <<>>
  ELSE (IF Truthy(appearance.default)
           /\ appearance.default \notin {Str(<<"l", "i", "g", "h", "t">>),
                                         Str(<<"d", "a", "r", "k">>),
                                         Str(<<"s", "y", "s", "t", "e", "m">>)}
        THEN <<appearance.default>> ELSE <<>>)
       \o (IF appearance.schemes = Undefined THEN <<>>
           ELSE IF NonObject(appearance.schemes) THEN <<appearance.schemes>>
           ELSE SelectSeq(appearance.schemes, LAMBDA scheme :
                  scheme \notin {Str(<<"l", "i", "g", "h", "t">>),
                                 Str(<<"d", "a", "r", "k">>)}))

\* validateCodeTheme(code): the entries an error is recorded for.
validateCodeTheme(code) ==
  IF NonObject(code) THEN <<>>
  ELSE SelectSeq(code, LAMBDA c :
         c.value.t # "string" \/ ~isValidColor(c.value).value)

\* validateThemeConfig(config): { valid, errors }, or what it throws.
validateThemeConfig(cfg) ==
  IF NonObject(cfg) THEN [threw |-> FALSE, valid |-> TRUE, errors |-> <<>>]
  ELSE IF validateFonts(cfg.fonts).threw
  THEN [threw |-> TRUE, valid |-> FALSE, errors |-> <<>>]
  ELSE Let1(validateColors(cfg.colors) \o validateContexts(cfg.contexts)
            \o validateFonts(cfg.fonts).errors
            \o validateAppearance(cfg.appearance)
            \o validateCodeTheme(cfg.code), LAMBDA allErrors :
         [threw |-> FALSE, valid |-> allErrors = <<>>, errors |-> allErrors])

\* processTheme(rawConfig, { strict }) for a rawConfig that has colors only
\* (the other sections of the result are their defaults): what it throws, or
\* the errors, the warnings, config.colors and config.palettes.
processTheme(rawConfig, strict) ==
  Let1(validateColors(rawConfig.colors), LAMBDA errors :
    IF errors # <<>> /\ strict
    THEN [ok |-> FALSE, err |-> "Theme configuration errors", errors |-> errors,
          warnings |-> {}, colors |-> <<>>, palettes |-> <<>>]
    ELSE
      Let1(IF rawConfig.colors = Undefined THEN <<>>
           ELSE [i \in DOMAIN rawConfig.colors |->
                   IF /\ rawConfig.colors[i].name = "neutral"
                      /\ rawConfig.colors[i].value.t = "string"
                      /\ Truthy(PresetOf(rawConfig.colors[i].value))
                   THEN [name |-> "neutral", value |-> PresetOf(rawConfig.colors[i].value)]
                   ELSE rawConfig.colors[i]], LAMBDA rawColors :
      Let1(SelectSeq(
             [i \in DOMAIN DEFAULT_COLORS |->
                IF \E j \in DOMAIN rawColors : rawColors[j].name = DEFAULT_COLORS[i].name
                THEN rawColors[CHOOSE j \in DOMAIN rawColors :
                                 rawColors[j].name = DEFAULT_COLORS[i].name]
                ELSE DEFAULT_COLORS[i]]
             \o SelectSeq(rawColors, LAMBDA c :
                            \A i \in DOMAIN DEFAULT_COLORS : DEFAULT_COLORS[i].name # c.name),
             LAMBDA c : \/ c.value.t = "object" /\ c.value # Null
                        \/ isValidColor(c.value).value), LAMBDA validColors :
      Let1(generatePalettes(validColors, [format |-> "undefined", mode |-> "undefined",
                                          exactMatch |-> "undefined"]), LAMBDA p :
        IF ~p.ok
        THEN [ok |-> FALSE, err |-> p.err, errors |-> errors, warnings |-> {},
              colors |-> <<>>, palettes |-> <<>>]
        ELSE [ok |-> TRUE, err |-> "none", errors |-> errors,
              warnings |-> {n \in {"primary", "neutral"} :
                              rawConfig.colors = Undefined
                              \/ \A i \in DOMAIN rawConfig.colors :
                                   rawConfig.colors[i].name = n =>
                                     ~Truthy(rawConfig.colors[i].value)},
              colors |-> validColors, palettes |-> p.palettes]))))

\* Colour entries: texts, objects with a base, objects of shades, and values
\* of other kinds.
SampleEntries ==
  << Str(<<"#", "3", "b", "8", "2", "f", "6">>),
     Obj(1, Str(<<"#", "A", "B", "C">>), [NoOpts EXCEPT !.mode = "vivid"], {}),
     Obj(2, Undefined, NoOpts, {<<"5", "0">>, <<"1", "0", "0">>}),
     Obj(3, Str(<<>>), NoOpts, {}),
     Str(<<"z", "z">>),
     Obj(4, Str(<<"e", "3", "1", "9", "3", "7">>),
         [NoOpts EXCEPT !.format = "hex", !.exactMatch = "false"], {<<"5", "0">>}),
     Obj(5, Str(<<"#", "3", "b", "8", "2", "f", "6">>),
         [NoOpts EXCEPT !.mode = "undefined"], {}),
     Obj(6, Str(<<"z", "z">>), NoOpts, {}),
     Obj(7, Undefined, NoOpts, {<<"x", "5">>, <<"0", "x">>}),
     Obj(8, Null, NoOpts, {<<"5", "x">>}),
     Null,
     Obj(9, Str(<<>>), NoOpts, {<<"5", "0">>}) >>

NumEntries == 11

\* A reference to the object at an address of the heap; an object of
\* variables or of fields is the sequence of its own entries, in order.
Ref(a) == [t |-> "object", ref |-> a]

\* merged[name].default = value: the fields of the object afterwards.
SetDefault(fields, value) ==
  IF \E k \in DOMAIN fields : fields[k].name = "default"
  THEN [k \in DOMAIN fields |->
          IF fields[k].name = "default" THEN [name |-> "default", value |-> value]
          ELSE fields[k]]
  ELSE Append(fields, [name |-> "default", value |-> value])

\* mergeFoundationVars(foundationVars, siteVars) on a heap h whose highest
\* address is in use: what it returns, the heap afterwards, and the site
\* names whose value was written onto an inherited property of merged.
\* The object of foundation entry i is allocated at top + i, the object of
\* a new site entry j at top + Len(foundationVars) + j.
mergeFoundationVars(h, foundationVars, siteVars) ==
  Let3(CHOOSE a \in DOMAIN h : \A b \in DOMAIN h : b <= a,
       {i \in DOMAIN siteVars :
          \E k \in DOMAIN foundationVars : foundationVars[k].name = siteVars[i].name},
       {i \in DOMAIN siteVars : siteVars[i].name \in ObjectPrototypeKeys},
       LAMBDA top, declared, inherited :
    [merged |->
       [i \in DOMAIN foundationVars |->
          [name |-> foundationVars[i].name, value |-> Ref(top + i)]]
       \o [i \in DOMAIN SelectSeq([j \in DOMAIN siteVars |-> j],
                                  LAMBDA j : j \notin declared \cup inherited) |->
             Let1(SelectSeq([j \in DOMAIN siteVars |-> j],
                            LAMBDA j : j \notin declared \cup inherited)[i], LAMBDA j :
               [name |-> siteVars[j].name,
                value |-> Ref(top + Len(foundationVars) + j)])],
     heap |->
       [a \in DOMAIN h
             \cup {top + i : i \in DOMAIN foundationVars}
             \cup {top + Len(foundationVars) + j :
                     j \in DOMAIN siteVars \ (declared \cup inherited)} |->
          IF a \in DOMAIN h THEN h[a]
          ELSE IF a <= top + Len(foundationVars)
          THEN Let1(foundationVars[a - top], LAMBDA f :
                 Let1(IF f.value.t # "object" THEN <<[name |-> "default", value |-> f.value]>>
                      ELSE IF f.value = Null THEN <<>>
                      ELSE h[f.value.ref], LAMBDA copy :
                   IF \E j \in declared : siteVars[j].name = f.name
                   THEN SetDefault(copy, siteVars[CHOOSE j \in declared :
                                                    siteVars[j].name = f.name].value)
                   ELSE copy))
          ELSE <<[name |-> "default",
                  value |-> siteVars[a - top - Len(foundationVars)].value]>>],
     inherited |-> {siteVars[j].name : j \in inherited \ declared}])

\* generateFoundationVars(vars) for the variables, on a heap h: the declarations pushed, each
\* the name and the text the template literal writes for the value, or the
\* TypeError of reading the default of null.
generateFoundationVars(h, variables) ==
  IF \E i \in DOMAIN variables : variables[i].value = Null
  THEN [threw |-> TRUE, declarations |-> <<>>]
  ELSE Let1([i \in DOMAIN variables |->
               [name |-> variables[i].name,
                value |-> IF variables[i].value.t # "object" THEN variables[i].value
                          ELSE IF \E k \in DOMAIN h[variables[i].value.ref] :
                                    h[variables[i].value.ref][k].name = "default"
                          THEN h[variables[i].value.ref][
                                 CHOOSE k \in DOMAIN h[variables[i].value.ref] :
                                   h[variables[i].value.ref][k].name = "default"].value
                          ELSE Undefined]], LAMBDA values :
         [threw |-> FALSE,
          declarations |->
            [i \in DOMAIN SelectSeq(values, LAMBDA d : d.value # Undefined) |->
               Let1(SelectSeq(values, LAMBDA d : d.value # Undefined)[i], LAMBDA d :
                 [name |-> d.name,
                  text |-> IF d.value.t \in {"string", "number"} THEN d.value.s
                           ELSE IF d.value = Null THEN <<"n", "u", "l", "l">>
                           ELSE <<"[", "o", "b", "j", "e", "c", "t", " ",
                                  "O", "b", "j", "e", "c", "t", "]">>])]])


InitPalettes ==
  LET
      \* The values a theme gives a colour: texts, preset names, objects, and
      \* values of other types.
      ThemeValues ==
        {Str(<<"#", "A", "B", "C">>), Str(<<"z", "z">>), Str(<<>>),
         Str(<<"s", "t", "o", "n", "e">>),
         Str(<<"z", "i", "n", "c">>), Str(<<"g", "r", "a", "y">>),
         Str(<<"s", "l", "a", "t", "e">>), Str(<<"n", "e", "u", "t", "r", "a", "l">>),
         Str(<<"c", "o", "n", "s", "t", "r", "u", "c", "t", "o", "r">>),
         Obj(1, Str(<<"z", "z">>), NoOpts, {}),
         Obj(2, Str(<<"#", "A", "B", "C">>), [NoOpts EXCEPT !.mode = "vivid"], {}),
         Obj(3, Undefined, NoOpts, {<<"5", "0">>}),
         Obj(4, Undefined, NoOpts, {}),
         Null, Number}
      \* The default options of a call.
      PaletteOptions ==
        {[format |-> "undefined", mode |-> "undefined", exactMatch |-> "undefined"],
         [format |-> "hex", mode |-> "natural", exactMatch |-> "undefined"]}
      \* The sections of a theme config: mappings, arrays and values of
      \* other types.
      colorsOf ==
        << Undefined, Number,
           <<[name |-> "primary", value |-> Str(<<"#", "f", "f", "f">>)],
             [name |-> "accent", value |-> Str(<<"z", "z">>)],
             [name |-> "neutral", value |-> Str(<<"s", "t", "o", "n", "e">>)]>> >>
      contextsOf ==
        << Undefined, Str(<<"x">>),
           <<[name |-> "light", value |-> Obj(1, Undefined, NoOpts, {})]>>,
           <<[name |-> "light", value |-> Null],
             [name |-> "bogus", value |-> Obj(1, Undefined, NoOpts, {})],
             [name |-> "dark", value |-> Str(<<"x">>)]>> >>
      importOf ==
        << Undefined, Null, Str(<<"x">>), <<>>,
           <<[t |-> "object", url |-> Str(<<"x">>)]>>,
           <<[t |-> "object", url |-> Undefined], Str(<<"x">>),
             [t |-> "object", url |-> Str(<<"x">>)]>>,
           <<[t |-> "object", url |-> Str(<<"x">>)], Null, Str(<<"x">>)>>,
           <<Null>> >>
      fontsOf ==
        <<Undefined, Null, Number>>
        \o [i \in DOMAIN importOf |-> [t |-> "object", import |-> importOf[i]]]
      appearanceOf ==
        << Undefined, Str(<<"l", "i", "g", "h", "t">>), Str(<<"x">>),
           [t |-> "object", default |-> Str(<<"x">>), schemes |-> Number],
           [t |-> "object", default |-> Undefined,
            schemes |-> <<Str(<<"l", "i", "g", "h", "t">>), Null,
                          Str(<<"d", "a", "r", "k">>)>>] >>
      codeOf ==
        << Undefined, Null,
           <<[name |-> "background", value |-> Str(<<"#", "f", "f", "f">>)],
             [name |-> "text", value |-> Number],
             [name |-> "keyword", value |-> Str(<<"z", "z">>)]>> >>
      \* The variables of a foundation, with the objects they refer to at
      \* addresses 1 and 2, and the variables of a site.
      Declared ==
        [type |-> Str(<<"l", "e", "n", "g", "t", "h">>), default |-> Str(<<"6", "4", "p", "x">>)]
      Fields(type, default) ==
        (IF type = Undefined THEN <<>> ELSE <<[name |-> "type", value |-> type]>>)
        \o (IF default = Undefined THEN <<>> ELSE <<[name |-> "default", value |-> default]>>)
      Foundations ==
        {[objects |-> <<>>, foundationVars |-> <<>>],
         [objects |-> <<>>,
          foundationVars |-> <<[name |-> "header-height", value |-> Declared.default]>>],
         [objects |-> <<>>,
          foundationVars |-> <<[name |-> "header-height", value |-> Null]>>],
         [objects |-> <<Fields(Declared.type, Declared.default)>>,
          foundationVars |-> <<[name |-> "header-height", value |-> Ref(1)]>>],
         [objects |-> <<Fields(Declared.type, Undefined)>>,
          foundationVars |-> <<[name |-> "header-height", value |-> Ref(1)]>>],
         [objects |-> <<Fields(Undefined, Declared.default)>>,
          foundationVars |-> <<[name |-> "constructor", value |-> Ref(1)]>>],
         [objects |-> <<Fields(Declared.type, Declared.default),
                        Fields(Undefined, Str(<<"2", "8", "0", "p", "x">>))>>,
          foundationVars |-> <<[name |-> "sidebar-width", value |-> Ref(2)],
                               [name |-> "header-height", value |-> Ref(1)]>>]}
      SiteNames == {"header-height", "sidebar-width", "constructor"}
      SiteValues == {Str(<<"8", "0", "p", "x">>), Declared.default, Null}
  IN
    /\ pc = "call"
    /\ outcome = "none"
    /\ \/ \E i, j \in 1..Min(NumEntries, Len(SampleEntries)) :
            \E o \in PaletteOptions :
              arg = [fn |-> "generatePalettes", options |-> o,
                     colors |-> <<[name |-> "primary", value |-> SampleEntries[i]],
                                  [name |-> "accent", value |-> SampleEntries[j]]>>]
       \/ \E c \in {Undefined, Null, Number, Str(<<"x">>)} :
            arg = [fn |-> "validateThemeConfig", config |-> c]
       \/ \E i \in DOMAIN colorsOf, j \in DOMAIN contextsOf, k \in DOMAIN fontsOf,
             l \in DOMAIN appearanceOf, m \in DOMAIN codeOf :
            arg = [fn |-> "validateThemeConfig",
                   config |-> [t |-> "object", colors |-> colorsOf[i],
                               contexts |-> contextsOf[j], fonts |-> fontsOf[k],
                               appearance |-> appearanceOf[l], code |-> codeOf[m]]]
       \/ \E f \in Foundations :
            \/ arg = [fn |-> "mergeFoundationVars", objects |-> f.objects,
                      foundationVars |-> f.foundationVars, siteVars |-> <<>>]
            \/ \E n \in SiteNames, v \in SiteValues :
                 \/ arg = [fn |-> "mergeFoundationVars", objects |-> f.objects,
                           foundationVars |-> f.foundationVars,
                           siteVars |-> <<[name |-> n, value |-> v]>>]
                 \/ \E m \in SiteNames \ {n}, w \in SiteValues :
                      arg = [fn |-> "mergeFoundationVars", objects |-> f.objects,
                             foundationVars |-> f.foundationVars,
                             siteVars |-> <<[name |-> n, value |-> v],
                                            [name |-> m, value |-> w]>>]
       \/ \E strict \in BOOLEAN :
              \/ arg = [fn |-> "processTheme", strict |-> strict,
                        rawConfig |-> [colors |-> Undefined]]
              \/ \E n \in {"primary", "neutral", "brand"} : \E v \in ThemeValues :
                   arg = [fn |-> "processTheme", strict |-> strict,
                          rawConfig |-> [colors |-> <<[name |-> n, value |-> v]>>]]
    /\ ret = NoCall
    /\ heap = IF arg.fn = "mergeFoundationVars" THEN LoadedHeap @@ arg.objects
              ELSE LoadedHeap
    /\ IdleShades

CallGeneratePalettes ==
  /\ pc = "call"
  /\ arg.fn = "generatePalettes"
  /\ ret' = generatePalettes(arg.colors, arg.options)
  /\ pc' = "called"
  /\ outcome' = IF ret'.ok THEN "returned" ELSE ret'.err
  /\ UNCHANGED <<arg, heap>>
  /\ UNCHANGED shadeVars

CallProcessTheme ==
  /\ pc = "call"
  /\ arg.fn = "processTheme"
  /\ ret' = processTheme(arg.rawConfig, arg.strict)
  /\ pc' = "called"
  /\ outcome' = IF ret'.ok THEN "returned" ELSE ret'.err
  /\ UNCHANGED <<arg, heap>>
  /\ UNCHANGED shadeVars

CallValidateThemeConfig ==
  /\ pc = "call"
  /\ arg.fn = "validateThemeConfig"
  /\ ret' = validateThemeConfig(arg.config)
  /\ pc' = "called"
  /\ outcome' = IF ret'.threw THEN "TypeError" ELSE "returned"
  /\ UNCHANGED <<arg, heap>>
  /\ UNCHANGED shadeVars

\* processTheme merges the variables of the site into those of the foundation
\* and generateThemeCSS declares the merged variables.
CallMergeFoundationVars ==
  /\ pc = "call"
  /\ arg.fn = "mergeFoundationVars"
  /\ \E r \in {mergeFoundationVars(heap, arg.foundationVars, arg.siteVars)} :
       /\ ret' = [merged |-> r.merged, inherited |-> r.inherited,
                  css |-> generateFoundationVars(r.heap, r.merged)]
       /\ heap' = r.heap
  /\ pc' = "called"
  /\ outcome' = "returned"
  /\ UNCHANGED arg
  /\ UNCHANGED shadeVars

NextPalettes ==
  \/ CallGeneratePalettes
  \/ CallProcessTheme
  \/ CallValidateThemeConfig
  \/ CallMergeFoundationVars

SpecPalettes == InitPalettes /\ [][NextPalettes]_vars

(***************************************************************************)
(* Properties of generateShades, parseColor and findMaxChroma              *)
(***************************************************************************)
\* The three components of a colour are numbers.
Numeric(o) == ~IsNaN(o.l) /\ ~IsNaN(o.c) /\ ~IsNaN(o.h)

RecognisedModes == DOMAIN MODE_CONFIG

\* color.trim().toLowerCase() of a text argument.
Normalised(col) == ToLowerCase(Trim(col.s))

\* A text in hex notation as parseColor tells it: a leading '#', or nothing
\* but 3 to 8 hex digits.
IsHexText(col) ==
  /\ col.t = "string"
  /\ StartsWith(Normalised(col), <<"#">>) \/ IsBareHex(Normalised(col))

\* A well-formed hex text: an optional '#', then 3, 4, 6 or 8 hex digits.
IsWellFormedHex(t) ==
  LET digits == IF StartsWith(t, <<"#">>) THEN SubSeq(t, 2, Len(t)) ELSE t
  IN  Len(digits) \in {3, 4, 6, 8} /\ \A i \in DOMAIN digits : digits[i] \in HexClass

\* A well-formed instance of one of the four notations; for the three
\* functional notations, whatever the pattern of the notation matches.
IsWellFormed(col) ==
  /\ col.t = "string"
  /\ col.s # <<>>
  /\ \/ IsWellFormedHex(Normalised(col))
     \/ StartsWith(Normalised(col), <<"o", "k", "l", "c", "h", "(">>)
          /\ FirstMatch(Normalised(col), oklchPatternAt).ok
     \/ StartsWith(Normalised(col), <<"r", "g", "b">>)
          /\ FirstMatch(Normalised(col), rgbPatternAt).ok
     \/ StartsWith(Normalised(col), <<"h", "s", "l">>)
          /\ FirstMatch(Normalised(col), hslPatternAt).ok

\* '#' followed by exactly six lowercase hex digits.
IsCanonicalHex(t) ==
  Len(t) = 7 /\ t[1] = "#" /\ \A i \in 2..7 : t[i] \in Range(HexChars)

\* The channels of a colour before any clamping, on the 0..255 scale, lie in
\* [-0.5, 255.5].
UnclampedInGamut(l, c, h) ==
  /\ ~IsNaN(l) /\ ~IsNaN(c) /\ ~IsNaN(h)
  /\ Let1(oklchToSrgbUnclamped(l, c, h), LAMBDA u :
         \A k \in DOMAIN u :
           /\ ~IsNaN(u[k])
           /\ u[k] * 255 >= 0 - Scale \div 2
           /\ u[k] * 255 <= 255 * Scale + Scale \div 2)

\* C1: for every colour text parseColor accepts and every mode, format and
\* exactMatch setting, generateShades returns a mapping whose keys are
\* exactly the 11 levels 50..950.
C1_ElevenLevels ==
  (pc = "done" /\ base.ok /\ IsWellFormed(color))
  => (outcome = "returned" /\ DOMAIN shades = Levels)

\* C2 as stated: with format 'hex' and exact match at its default, for every
\* accepted hex text and each of the three modes, the level-500 entry equals
\* the input text when compared case-insensitively.
C2_EchoesEveryHexForm ==
  (/\ Returned
   /\ FormatOf(options) = "hex"
   /\ options.exactMatch = "undefined"
   /\ ModeOf(options) \in RecognisedModes
   /\ IsHexText(color))
  => ToLowerCase(shades[500].text) = ToLowerCase(color.s)

\* C2 amended: with format 'hex' and exact match not disabled, in each of the
\* three modes, the level-500 entry of a hex text that itself starts with
\* '#' is that text, character for character; for any other accepted hex
\* text (bare digits, or white space before the '#') it is the canonical
\* '#rrggbb' text of the same RGB colour.
C2_EchoesHashForms ==
  (/\ Returned
   /\ FormatOf(options) = "hex"
   /\ options.exactMatch # "false"
   /\ ModeOf(options) \in RecognisedModes
   /\ IsHexText(color))
  => IF StartsWith(color.s, <<"#">>)
     THEN shades[500].text = color.s
     ELSE /\ IsCanonicalHex(shades[500].text)
          /\ hexToRgb(shades[500].text) = hexToRgb(Normalised(color))

C2_Witness ==
  /\ Returned
  /\ FormatOf(options) = "hex"
  /\ options.exactMatch = "undefined"
  /\ ModeOf(options) = "vivid"
  /\ IsHexText(color)
  /\ ~StartsWith(color.s, <<"#">>)
  /\ shades[500].text # color.s

\* C3: with format 'hex', every one of the 11 returned values, the level-500
\* entry under exact match included, is '#' followed by exactly six lowercase
\* hex digits, for every accepted colour and every mode.
C3_CanonicalHexOutput ==
  (Returned /\ FormatOf(options) = "hex" /\ IsWellFormed(color) /\ Numeric(base))
  => \A level \in Levels : IsCanonicalHex(shades[level].text)

\* C4: for every valid colour, format and exactMatch setting, a mode that is
\* none of fixed, natural, vivid returns without error, and at each of the 11
\* levels returns what mode 'fixed' returns for the same call.  Stated for
\* the modes that name no inherited property of an object; C1 has those.
C4_FallbackToFixed ==
  (/\ pc = "done"
   /\ base.ok /\ IsWellFormed(color) /\ Numeric(base)
   /\ ModeOf(options) \notin RecognisedModes \cup ObjectPrototypeKeys)
  => /\ outcome = "returned"
     /\ \A level \in Levels :
          shades[level].text =
            FixedShade(base, color.s, FormatOf(options), options.exactMatch, level).text

\* C5: parseColor signals a format error for every input that is not text,
\* is empty, or is not a well-formed instance of one of the four notations;
\* '#' followed by non-hex characters or by a wrong number of digits is
\* rejected.
C5_RejectsMalformed ==
  (pc \in {"fixed", "enhanced", "done"} /\ ~IsWellFormed(color)) => ~base.ok

\* C6: for every text parseColor accepts the hue of the result lies in
\* [0, 360) and its lightness in [0, 1].
C6_CanonicalTriple ==
  (pc \in {"fixed", "enhanced", "done"} /\ base.ok /\ Numeric(base))
  => /\ 0 <= base.h /\ base.h < 360 * Scale
     /\ 0 <= base.l /\ base.l <= Scale

\* C7: in fixed mode with exact match enabled, for every input whose
\* lightness is strictly between 0 and 1, the lightness of the returned
\* shades is non-increasing along the levels 50, 100, ..., 950.
C7_LightnessNonIncreasing ==
  (/\ Returned
   /\ ModeOf(options) = "fixed"
   /\ options.exactMatch # "false"
   /\ IsWellFormed(color) /\ Numeric(base)
   /\ 0 < base.l /\ base.l < Scale)
  => \A i \in 1..(Len(SHADE_LEVELS) - 1) :
       shades[SHADE_LEVELS[i + 1]].l <= shades[SHADE_LEVELS[i]].l

\* C8: in fixed mode, for every valid colour, all 11 returned shades have
\* one and the same hue, the hue of the parsed input: the hue each shade is
\* built with is the parsed hue, and each perceptual text, read back by
\* parseColor, gives that hue to the one decimal the text prints.
C8_FixedHue ==
  (Returned /\ ModeOf(options) = "fixed" /\ Numeric(base))
  => \A level \in Levels :
       /\ shades[level].h = base.h
       /\ FormatOf(options) = "oklch" =>
            Let1(parseColor(Str(shades[level].text)), LAMBDA back :
              back.ok /\ Abs(back.h - base.h) <= 50000)

C8_Witness ==
  /\ Returned
  /\ ModeOf(options) = "fixed"
  /\ FormatOf(options) = "oklch"
  /\ Numeric(base)
  /\ base.c > 0
  /\ shades[50].text # shades[950].text
  /\ shades[50].l > shades[950].l

\* C9: every colour generateShades emits, in any mode and either format,
\* the level-500 entry included, is inside the display gamut: its channels
\* before any clamping lie in [-0.5, 255.5].
C9_EmittedInGamut ==
  (Returned /\ IsWellFormed(color) /\ Numeric(base))
  => \A level \in Levels :
       UnclampedInGamut(shades[level].l, shades[level].c, shades[level].h)

\* The in-gamut midpoints a call of findMaxChroma has tested.
TestedInGamut == {tested[k].c : k \in {j \in DOMAIN tested : tested[j].inGamut}}

C11_IsValidColor ==
  (pc = "called" /\ arg.fn = "isValidColor") =>
    /\ outcome = "returned"
    /\ ret.value \in BOOLEAN
    /\ ret.value <=> parseColor(arg.v).ok

C11_Witness ==
  /\ pc = "called"
  /\ arg.fn = "isValidColor"
  /\ arg.v.t = "string"
  /\ arg.v.s # <<>>
  /\ ret.value = FALSE

\* The digits of a hex text: the text without its '#', in lower case.
HexDigitsOf(t) ==
  ToLowerCase(IF StartsWith(t, <<"#">>) THEN SubSeq(t, 2, Len(t)) ELSE t)

\* The canonical form of a hex text of 3, 4, 6 or 8 digits: '#' and six
\* lowercase digits, a short form's digits doubled, alpha digits dropped.
CanonicalHexOf(t) ==
  LET d == HexDigitsOf(t)
  IN  <<"#">> \o (IF Len(d) \in {3, 4} THEN <<d[1], d[1], d[2], d[2], d[3], d[3]>>
                  ELSE SubSeq(d, 1, 6))

\* The channels two lowercase hex digits a text holds at positions i, i + 1.
PairValue(t, i) == 16 * (HexVal(t[i])) + HexVal(t[i + 1])

\* C17: every accepted hex form ('#rgb', '#rgba', '#rrggbb', '#rrggbbaa',
\* the same without '#', upper or lower case) parses to the colour of its
\* canonical six-digit lowercase form, and denotes the RGB channels that
\* form spells.
C17_HexFormsAgree ==
  (pc = "called" /\ arg.fn = "parseColor" /\ IsWellFormedHex(arg.v.s)) =>
    /\ ret.ok
    /\ ret = parseColor(Str(CanonicalHexOf(arg.v.s)))
    /\ hexToRgb(arg.v.s) =
         [r |-> PairValue(CanonicalHexOf(arg.v.s), 2),
          g |-> PairValue(CanonicalHexOf(arg.v.s), 4),
          b |-> PairValue(CanonicalHexOf(arg.v.s), 6)]

C17_Witness ==
  /\ pc = "called"
  /\ arg.fn = "parseColor"
  /\ arg.v.s = <<"c", "F", "0", "F">>
  /\ ret = parseColor(Str(<<"#", "c", "c", "f", "f", "0", "0">>))
  /\ ret.c > 0

\* C18: for all channel values r, g, b in 0..255, formatHex(r, g, b) is
\* exactly 7 characters, '#' followed by r, g, b in that order as two
\* lowercase hex digits each, zero-padded; parsing the text back as hex
\* returns r, g, b.
C18_FormatHex ==
  (pc = "called" /\ arg.fn = "formatHex") =>
    /\ IsCanonicalHex(ret)
    /\ PairValue(ret, 2) = arg.r /\ PairValue(ret, 4) = arg.g /\ PairValue(ret, 6) = arg.b
    /\ hexToRgb(ret) = [r |-> arg.r, g |-> arg.g, b |-> arg.b]

C18_Witness ==
  /\ pc = "called"
  /\ arg.fn = "formatHex"
  /\ arg.r = 9 /\ arg.g = 171 /\ arg.b = 0
  /\ ret = <<"#", "0", "9", "a", "b", "0", "0">>

\* The text after the leading '--' of a token value, if it has one.
RefBody(t) == IF StartsWith(t, <<"-", "-">>) THEN SubSeq(t, 3, Len(t)) ELSE t

\* The level a reference body 'name-N' names: N is the numeral of a shade
\* level and the name before the dash is of lowercase letters and digits.
RefLevels(b) ==
  {n \in Levels :
     LET tail == <<"-">> \o NatText(n)
         name == SubSeq(b, 1, Len(b) - Len(tail))
     IN  /\ Len(b) > Len(tail)
         /\ SubSeq(b, Len(b) - Len(tail) + 1, Len(b)) = tail
         /\ \A i \in DOMAIN name : name[i] \in Range(LowerChars) \cup DigitClass}

\* C20: a context token value 'name-N' or '--name-N' (name of lowercase
\* letters and digits, N one of the 11 shade levels) is resolved to
\* 'var(--name-N)', and every other value is passed through unchanged. A
\* name that begins with a digit is left open here: either result is taken.
C20_ResolvesBareReferences ==
  (pc = "called" /\ arg.fn = "normalizePaletteRef") =>
    IF arg.v.t = "string" /\ RefLevels(RefBody(arg.v.s)) # {}
    THEN \/ ret = Str(<<"v", "a", "r", "(", "-", "-">> \o RefBody(arg.v.s) \o <<")">>)
         \/ RefBody(arg.v.s)[1] \in DigitClass /\ ret = arg.v
    ELSE ret = arg.v

\* C15: whatever callers do to the arrays getShadeLevels returned (push,
\* pop, overwrite), a call of getShadeLevels returns exactly the 11 levels
\* in order, in an array no caller held before, and generateShades produces
\* exactly those 11 keys: the table itself never changes.
C15_TableUnchanged ==
  (arg.fn = "getShadeLevels" /\ pc = "called") =>
    /\ heap[0] = SHADE_LEVELS
    /\ ret.fresh => heap[ret.addr] = <<50, 100, 200, 300, 400, 500, 600, 700, 800, 900, 950>>
    /\ ret.keys \in {{}, Levels}

C15_Witness ==
  /\ arg.fn = "getShadeLevels"
  /\ pc = "called"
  /\ ret.fresh
  /\ ret.keys = Levels
  /\ \E a \in ret.held \ {ret.addr} :
       /\ heap[a][1] = Foreign
       /\ Len(heap[a]) > Len(SHADE_LEVELS)

(***************************************************************************)
(* Properties of generatePalettes                                          *)
(***************************************************************************)
PalettesReturned == pc = "called" /\ arg.fn = "generatePalettes"

\* The colour texts of the call: the plain-string entries and the 'base'
\* fields of the entries that have one.
ColourTexts ==
  {arg.colors[i].value : i \in {j \in DOMAIN arg.colors : arg.colors[j].value.t = "string"}}
  \cup {arg.colors[i].value.base :
          i \in {j \in DOMAIN arg.colors :
                   /\ arg.colors[j].value.t = "object" /\ arg.colors[j].value # Null
                   /\ arg.colors[j].value.base.t # "undefined"}}

\* C12: when parseColor rejects a plain-string entry or the 'base' of an
\* entry, generatePalettes fails with that error of parseColor and returns
\* no palette at all.
C12_InvalidColorFails ==
  (PalettesReturned /\ \E x \in ColourTexts : ~parseColor(x).ok) =>
    /\ ~ret.ok
    /\ ret.palettes = <<>>
    /\ ret.err \in {parseColor(x).err : x \in {y \in ColourTexts : ~parseColor(y).ok}}

\* A key that looks numeric: decimal digits only.
NumericLooking(k) == k # <<>> /\ \A i \in DOMAIN k : k[i] \in DigitClass

\* C13: when generatePalettes returns, every entry that is an object with
\* at least one numeric-looking key and no 'base' field is in the result
\* under its name, as the same object with the same contents, whatever the
\* default options are.
C13_ShadesObjectPassedThrough ==
  PalettesReturned =>
    \A i \in DOMAIN arg.colors :
      (/\ ret.ok
       /\ arg.colors[i].value.t = "object" /\ arg.colors[i].value # Null
       /\ arg.colors[i].value.base.t = "undefined"
       /\ \E k \in arg.colors[i].value.keys : NumericLooking(k)) =>
        /\ arg.colors[i].name \in DOMAIN ret.palettes
        /\ ret.palettes[arg.colors[i].name].kind = "same"
        /\ ret.palettes[arg.colors[i].name].value.id = arg.colors[i].value.id
        /\ ret.palettes[arg.colors[i].name].value = arg.colors[i].value

C13_Witness ==
  /\ PalettesReturned
  /\ ret.ok
  /\ arg.options.mode = "natural"
  /\ arg.colors[2].value.t = "object"
  /\ arg.colors[2].value # Null
  /\ arg.colors[2].value.base.t = "undefined"
  /\ <<"5", "0">> \in arg.colors[2].value.keys
  /\ ret.palettes[arg.colors[1].name].kind = "shades"
  /\ ret.palettes[arg.colors[2].name].kind = "same"

\* The default options overridden by the fields an entry has.
Overridden(defaults, e) ==
  [format     |-> IF e.opts.format # "absent" THEN e.opts.format ELSE defaults.format,
   mode       |-> IF e.opts.mode # "absent" THEN e.opts.mode ELSE defaults.mode,
   exactMatch |-> IF e.opts.exactMatch # "absent" THEN e.opts.exactMatch
                  ELSE defaults.exactMatch]

\* C14: when generatePalettes returns, the ramp of an entry with a valid
\* 'base' is generateShades(base, default options overridden by the
\* entry's other fields), and the ramp of a valid plain string is
\* generateShades(string, default options).
C14_RampOfEntry ==
  PalettesReturned =>
    \A i \in DOMAIN arg.colors :
      /\ (/\ ret.ok
          /\ arg.colors[i].value.t = "object" /\ arg.colors[i].value # Null
          /\ parseColor(arg.colors[i].value.base).ok) =>
           /\ arg.colors[i].name \in DOMAIN ret.palettes
           /\ ret.palettes[arg.colors[i].name].kind = "shades"
           /\ ret.palettes[arg.colors[i].name].value =
                generateShades(arg.colors[i].value.base,
                               Overridden(arg.options, arg.colors[i].value))
      /\ (/\ ret.ok
          /\ arg.colors[i].value.t = "string"
          /\ parseColor(arg.colors[i].value).ok) =>
           /\ arg.colors[i].name \in DOMAIN ret.palettes
           /\ ret.palettes[arg.colors[i].name].kind = "shades"
           /\ ret.palettes[arg.colors[i].name].value =
                generateShades(arg.colors[i].value, arg.options)

C14_Witness ==
  /\ PalettesReturned
  /\ ret.ok
  /\ arg.options = [format |-> "hex", mode |-> "natural", exactMatch |-> "undefined"]
  /\ arg.colors[1].value.t = "object"
  /\ arg.colors[1].value # Null
  /\ arg.colors[1].value.opts = [NoOpts EXCEPT !.mode = "vivid"]
  /\ arg.colors[2].value.t = "string"
  /\ ret.palettes[arg.colors[1].name].value =
       generateShades(arg.colors[1].value.base,
                      [format |-> "hex", mode |-> "vivid", exactMatch |-> "undefined"])
  /\ ret.palettes[arg.colors[1].name].value #
       generateShades(arg.colors[1].value.base, arg.options)

\* C16: the value generatePalettes gives a name depends only on that name's
\* entry and the default options: the entries in the opposite order give
\* the same palettes, and each entry computed alone gives the same value.
C16_EntriesIndependent ==
  (PalettesReturned /\ ret.ok) =>
    /\ generatePalettes(<<arg.colors[2], arg.colors[1]>>, arg.options) = ret
    /\ \A i \in DOMAIN arg.colors :
         LET alone == generatePalettes(<<arg.colors[i]>>, arg.options)
         IN  /\ alone.ok
             /\ DOMAIN alone.palettes = DOMAIN ret.palettes \cap {arg.colors[i].name}
             /\ \A n \in DOMAIN alone.palettes : alone.palettes[n] = ret.palettes[n]

C16_Witness ==
  /\ PalettesReturned
  /\ ret.ok
  /\ DOMAIN ret.palettes = {"primary", "accent"}
  /\ ret.palettes["primary"].kind = "shades"
  /\ ret.palettes["accent"].kind = "shades"
  /\ ret.palettes["primary"] # ret.palettes["accent"]
  /\ arg.colors[1].value.t = "object"
  /\ arg.colors[1].value # Null
  /\ arg.colors[1].value.opts.mode = "vivid"
  /\ arg.colors[2].value.t = "string"

\* A colour of the raw config that cannot be used: a text parseColor
\* rejects (the name of a neutral preset apart), an object whose 'base'
\* parseColor rejects, or a value that is neither a text nor an object.
Offending(c) ==
  IF c.value.t = "string"
  THEN ~parseColor(c.value).ok /\ ~(c.name = "neutral" /\ c.value.s \in DOMAIN NEUTRAL_PRESETS)
  ELSE IF c.value.t = "object" /\ c.value # Null
  THEN c.value.base.t # "undefined" /\ ~parseColor(c.value.base).ok
  ELSE TRUE

\* C19: with strict = true processTheme throws whenever validation reports
\* an error; with strict = false it never throws because of the colours:
\* it returns, and the colours that cannot be used are listed in errors and
\* are not in config.colors.
C19_ColorsNeverThrowUnlessStrict ==
  (pc = "called" /\ arg.fn = "processTheme") =>
    /\ (arg.strict /\ validateColors(arg.rawConfig.colors) # <<>>) => ~ret.ok
    /\ ~arg.strict =>
         /\ ret.ok
         /\ arg.rawConfig.colors # Undefined =>
              \A i \in DOMAIN arg.rawConfig.colors :
                Offending(arg.rawConfig.colors[i]) =>
                  /\ \E k \in DOMAIN ret.errors :
                       ret.errors[k].name = arg.rawConfig.colors[i].name
                  /\ \A j \in DOMAIN ret.colors :
                       ret.colors[j].name = arg.rawConfig.colors[i].name =>
                         ret.colors[j].value # arg.rawConfig.colors[i].value

(***************************************************************************)
(* Properties of the modes and of exact match                              *)
(***************************************************************************)
Enhanced == ModeOf(options) \in {"natural", "vivid"}

\* The hue shift of the mode at the light or the dark end ("light",
\* "dark"), its sign flipped for a cool hue.
ShiftFor(end) ==
  IF (0 <= base.h /\ base.h < 120 * Scale) \/ base.h > 300 * Scale
  THEN MODE_CONFIG[ModeOf(options)].hueShift[end]
  ELSE 0 - MODE_CONFIG[ModeOf(options)].hueShift[end]

\* h brought into [0, 360).
Turned(h) == ((h % (360 * Scale)) + 360 * Scale) % (360 * Scale)

\* C23: in natural and vivid modes, for an input with non-zero chroma, the
\* hue at level 50 is the input hue offset by the mode's light shift, the
\* hue at level 950 the input hue offset by its dark shift, both signs
\* flipped for a cool hue, and the two hues differ.
C23_EndHuesDiffer ==
  (/\ Returned /\ Enhanced
   /\ IsWellFormed(color) /\ Numeric(base)
   /\ base.c > 0)
  => /\ shades[50].h = Turned(base.h + ShiftFor("light"))
     /\ shades[950].h = Turned(base.h + ShiftFor("dark"))
     /\ shades[50].h # shades[950].h
     /\ FormatOf(options) = "oklch" =>
          parseColor(Str(shades[50].text)).h # parseColor(Str(shades[950].text)).h

C23_Witness ==
  /\ Returned
  /\ ModeOf(options) = "natural"
  /\ FormatOf(options) = "oklch"
  /\ color.s = <<"#", "3", "b", "8", "2", "f", "6">>
  /\ shades[50].h = base.h - 5 * Scale
  /\ shades[950].h = base.h + 15 * Scale

\* C24: with exact match on, the level-500 entry is the same under fixed,
\* natural and vivid, and comes from the input alone: the caller's text
\* when it is asked for in hex and begins with '#', the parsed colour
\* formatted otherwise.
C24_ExactLevelSameInEveryMode ==
  (/\ Returned
   /\ ModeOf(options) \in RecognisedModes
   /\ options.exactMatch # "false"
   /\ IsWellFormed(color) /\ Numeric(base))
  => /\ shades[500] = FixedShade(base, color.s, FormatOf(options), "true", 500)
     /\ shades[500].text =
          IF FormatOf(options) = "oklch" THEN formatOklch(base.l, base.c, base.h)
          ELSE IF StartsWith(color.s, <<"#">>) THEN color.s
          ELSE formatHexFromOklch(base)

C24_Witness ==
  /\ Returned
  /\ ModeOf(options) = "vivid"
  /\ options.exactMatch = "undefined"
  /\ FormatOf(options) = "hex"
  /\ color.s = <<"e", "3", "1", "9", "3", "7">>
  /\ shades[500].text = <<"#", "e", "3", "1", "9", "3", "7">>
  /\ shades[400].h # base.h

\* C25: in fixed mode with exactMatch false the lightness of each level is
\* the LIGHTNESS_MAP value of the level whatever the input's lightness, and
\* level 500 is computed like the other levels: table lightness, the whole
\* chroma of the input, gamut mapping.
C25_TableLightness ==
  (/\ Returned
   /\ ModeOf(options) = "fixed"
   /\ options.exactMatch = "false"
   /\ IsWellFormed(color) /\ Numeric(base))
  => /\ \A level \in Levels :
          /\ shades[level].l = LIGHTNESS_MAP[level]
          /\ FormatOf(options) = "oklch" =>
               parseColor(Str(shades[level].text)).l = LIGHTNESS_MAP[level]
     /\ shades[50].l = 970000 /\ shades[500].l = 550000 /\ shades[950].l = 140000
     /\ shades[500].c = findMaxChroma(550000, base.h, base.c)
     /\ shades[500].h = base.h

C25_Witness ==
  /\ Returned
  /\ ModeOf(options) = "fixed"
  /\ options.exactMatch = "false"
  /\ FormatOf(options) = "oklch"
  /\ color.s = <<"#", "f", "a", "f", "a", "f", "a">>
  /\ base.l > 970000
  /\ shades[500].l = 550000
  /\ shades[500].text # formatOklch(base.l, base.c, base.h)

\* The distance between two hues around the circle.
HueDistance(a, b) ==
  Min(Turned(a - b), Turned(b - a))

\* C26: in natural and vivid modes, for a chromatic input of hue in [0, 360), the hue
\* of every level is within the mode's largest hue shift of the input hue,
\* measured around the circle: 15 degrees in natural, 10 in vivid.
C26_HueStaysNearInput ==
  (/\ Returned /\ Enhanced
   /\ IsWellFormed(color) /\ Numeric(base)
   /\ base.c > 0
   /\ 0 <= base.h /\ base.h < 360 * Scale)
  => \A level \in Levels :
       HueDistance(shades[level].h, base.h)
         <= (IF ModeOf(options) = "natural" THEN 15 ELSE 10) * Scale

(***************************************************************************)
(* Properties of the theme                                                 *)
(***************************************************************************)
\* C30: every 'var(--name-N)' normalizePaletteRef makes of a bare reference
\* ends in one of the 11 shade-level numerals, character for character:
\* the text closes with '-', the numeral of a level, ')'.
C30_ProducedNumeralIsALevel ==
  (pc = "called" /\ arg.fn = "normalizePaletteRef" /\ ret # arg.v) =>
    \E n \in Levels :
      LET tail == <<"-">> \o NatText(n) \o <<")">>
      IN  /\ Len(ret.s) > Len(tail)
          /\ SubSeq(ret.s, Len(ret.s) - Len(tail) + 1, Len(ret.s)) = tail

ThemeReturned == pc = "called" /\ arg.fn = "processTheme"

\* The entries of the raw colors mapping, none when there is no mapping.
RawColors == IF arg.rawConfig.colors = Undefined THEN {} ELSE Range(arg.rawConfig.colors)

\* C22: a preset name (stone, zinc, gray, slate, neutral) given to the
\* color named 'neutral' is no validation error, and config.colors.neutral
\* is the preset's hex value; given to a color of another name it is
\* reported as an invalid color and is not resolved.
C22_NeutralPresets ==
  ThemeReturned =>
    \A c \in RawColors :
      (c.value.t = "string" /\ c.value.s \in DOMAIN NEUTRAL_PRESETS) =>
        IF c.name = "neutral"
        THEN /\ validateColors(arg.rawConfig.colors) = <<>>
             /\ ret.ok
             /\ [name |-> "neutral", value |-> Str(NEUTRAL_PRESETS[c.value.s])]
                  \in Range(ret.colors)
        ELSE /\ c \in Range(ret.errors)
             /\ \A k \in Range(ret.colors) :
                  k.name = c.name => k.value # Str(NEUTRAL_PRESETS[c.value.s])

C22_Witness ==
  /\ ThemeReturned
  /\ ret.ok
  /\ [name |-> "neutral", value |-> Str(<<"z", "i", "n", "c">>)] \in RawColors
  /\ [name |-> "neutral", value |-> Str(<<"#", "7", "1", "7", "1", "7", "a">>)]
       \in Range(ret.colors)
  /\ "neutral" \in DOMAIN ret.palettes

\* C27: whenever processTheme returns, config.colors has a usable value (a
\* text parseColor accepts, or an object) for each of primary, secondary,
\* accent and neutral, and it is the default wherever the raw config gives
\* the name no valid value.
C27_DefaultsAlwaysPresent ==
  (ThemeReturned /\ ret.ok) =>
    \A i \in DOMAIN DEFAULT_COLORS :
      \E k \in Range(ret.colors) :
        /\ k.name = DEFAULT_COLORS[i].name
        /\ k.value.t = "string" => parseColor(k.value).ok
        /\ (\A c \in RawColors : c.name = k.name => Offending(c)) =>
             k.value = DEFAULT_COLORS[i].value

\* C29: whenever processTheme returns, the names of config.palettes are
\* exactly the names of config.colors.
C29_PaletteForEveryColor ==
  (ThemeReturned /\ ret.ok) =>
    DOMAIN ret.palettes = {k.name : k \in Range(ret.colors)}

\* C28: validateThemeConfig returns { valid, errors } for every config,
\* null items of fonts.import included, and never throws; valid is true
\* exactly when errors is empty.
C28_ValidateIsTotal ==
  (pc = "called" /\ arg.fn = "validateThemeConfig") =>
    /\ ~ret.threw
    /\ outcome = "returned"
    /\ ret.valid <=> ret.errors = <<>>

\* ---- Properties of the foundation variables ----

\* The fields of an object other than its default.
OtherFields(fields) == SelectSeq(fields, LAMBDA f : f.name # "default")

\* C21: after the variables of a site are merged into those of a foundation,
\* a site value for a declared variable leaves one merged variable of that
\* name, with the foundation's other fields and the site value as default,
\* and the CSS declares the name once, with the site value; a site variable
\* the foundation does not declare is merged as { default: value }; and the
\* objects of the caller are what they were.
C21_SiteValuesMerged ==
  (pc = "called" /\ arg.fn = "mergeFoundationVars") =>
    /\ \A s \in Range(arg.siteVars) :
         IF \E f \in Range(arg.foundationVars) : f.name = s.name
         THEN /\ \E i \in DOMAIN ret.merged :
                   /\ \A j \in DOMAIN ret.merged :
                        ret.merged[j].name = s.name <=> j = i
                   /\ \E f \in Range(arg.foundationVars) :
                        /\ f.name = s.name
                        /\ OtherFields(heap[ret.merged[i].value.ref])
                             = IF f.value.t = "object" /\ f.value # Null
                               THEN OtherFields(arg.objects[f.value.ref])
                               ELSE <<>>
                   /\ \A g \in Range(heap[ret.merged[i].value.ref]) :
                        g.name = "default" => g.value = s.value
                   /\ \E g \in Range(heap[ret.merged[i].value.ref]) : g.name = "default"
              /\ ~ret.css.threw
              /\ \E i \in DOMAIN ret.css.declarations :
                   /\ \A j \in DOMAIN ret.css.declarations :
                        ret.css.declarations[j].name = s.name <=> j = i
                   /\ s.value.t = "string" => ret.css.declarations[i].text = s.value.s
         ELSE \E i \in DOMAIN ret.merged :
                /\ ret.merged[i].name = s.name
                /\ heap[ret.merged[i].value.ref] = <<[name |-> "default", value |-> s.value]>>
    /\ \A a \in DOMAIN arg.objects : heap[a] = arg.objects[a]
====
